---- MODULE Spec2Model ----
(***************************************************************************)
(* A model of the tree state-synchronisation engine of bs-treeview:        *)
(* BSTreeView (src/src/lib/BSTreeView.ts, lines 1-1412) and BSTreeViewNode *)
(* (src/src/lib/BSTreeViewNode.ts, lines 1260-2173).                       *)
(*                                                                         *)
(* Node objects live in a heap `node` indexed by object identity 1..N; a   *)
(* reference is an identity, the null reference is 0.  JavaScript values   *)
(* of the state flags are the strings "true", "false", "null" and          *)
(* "undefined"; texts, patterns and nodeIds are sequences of characters.   *)
(* One handler is one action: the handler's statements are operators that  *)
(* map a world record (the fields of the tree and of its nodes, the events *)
(* raised so far and the error thrown, if any) to the world after them.    *)
(***************************************************************************)
EXTENDS Integers, Sequences, FiniteSets, TLC

VARIABLES
    options,        \* BSTreeView._options
    loading,        \* the pending asynchronous load: what its promise settles with
    node,           \* the BSTreeViewNode objects: identity -> fields
    tree,           \* BSTreeView._tree: the root list
    flat,           \* BSTreeView._nodes: insertion-ordered map nodeId -> node
    ordered,        \* BSTreeView._orderedNodes: the map sorted by nodeId
    indexed,        \* whether _nodes and _orderedNodes exist (are not undefined)
    checkedNodes,   \* BSTreeView._checkedNodes: the checked-node list, if defined
    initialized,    \* BSTreeView._initialized
    events,         \* the notifications raised by the last handler
    err,            \* the error the last handler threw, or "none"
    last            \* the last handler called and its arguments

vars == <<options, loading, node, tree, flat, ordered, indexed, checkedNodes, initialized,
          events, err, last>>

---------------------------------------------------------------------------
(* Bounds of the model *)

\* Node objects that exist in one run (loaded and created later).
MaxNodes == 4
\* Nodes handed to one addNode or removeNode call.
MaxList == 2
MaxTreeNodes == 3

Ids == 1..MaxNodes
NullRef == 0

---------------------------------------------------------------------------
(* Sequences *)

RECURSIVE FoldLeft(_, _, _)
\* Array.prototype.forEach with the world as accumulator.
FoldLeft(Op(_, _), acc, s) ==
    IF s = <<>> THEN acc ELSE FoldLeft(Op, Op(acc, Head(s)), Tail(s))

Range(s) == {s[i] : i \in 1..Len(s)}

\* Array.prototype.indexOf(x) # -1
Includes(s, x) == \E i \in 1..Len(s) : s[i] = x

\* Array.prototype.splice(start, deleteCount, ...items) on a copy of s;
\* start is zero-based and clamped to [0, length] (negative: from the end).
Splice(s, start, deleteCount, items) ==
    LET len == Len(s)
        st  == IF start < 0 THEN (IF len + start < 0 THEN 0 ELSE len + start)
               ELSE IF start > len THEN len ELSE start
        dc  == IF deleteCount > len - st THEN len - st ELSE deleteCount
    IN  SubSeq(s, 1, st) \o items \o SubSeq(s, st + dc + 1, len)

\* The injective sequences over a set, of length 1..k.
ListsOf(S, k) ==
    {s \in UNION {[1..n -> S] : n \in 1..k} : \A i, j \in 1..Len(s) : i # j => s[i] # s[j]}

---------------------------------------------------------------------------
(* Strings: sequences of one-character strings *)

Digits == <<"0", "1", "2", "3", "4", "5", "6", "7", "8", "9">>

RECURSIVE NumToStr(_)
\* Number.prototype.toString of a non-negative integer (the string
\* concatenation of a number in _updateChildrenHierarchy).
NumToStr(n) ==
    IF n < 10 THEN <<Digits[n + 1]>>
    ELSE NumToStr(n \div 10) \o <<Digits[(n % 10) + 1]>>

DigitVal(c) == CHOOSE d \in 0..9 : Digits[d + 1] = c
IsDigit(c) == \E d \in 0..9 : Digits[d + 1] = c

RECURSIVE parseInt(_)
\* parseInt of a string of decimal digits; -1 stands for NaN.
parseInt(s) ==
    IF s = <<>> \/ \E i \in 1..Len(s) : ~IsDigit(s[i]) THEN -1
    ELSE IF Len(s) = 1 THEN DigitVal(s[1])
    ELSE 10 * parseInt(SubSeq(s, 1, Len(s) - 1)) + DigitVal(s[Len(s)])

RECURSIVE split(_, _)
\* String.prototype.split(sep) for a one-character separator.
split(s, sep) ==
    IF \A i \in 1..Len(s) : s[i] # sep THEN <<s>>
    ELSE LET k == CHOOSE i \in 1..Len(s) : s[i] = sep /\ \A j \in 1..(i - 1) : s[j] # sep
         IN  <<SubSeq(s, 1, k - 1)>> \o split(SubSeq(s, k + 1, Len(s)), sep)

\* Boolean.prototype.toString
BoolChars(v) == IF v = "true" THEN <<"t", "r", "u", "e">> ELSE <<"f", "a", "l", "s", "e">>

\* Case folding of the modelled alphabet (RegExp modifier i).
Lower(c) == IF c = "C" THEN "c" ELSE IF c = "G" THEN "g" ELSE IF c = "P" THEN "p" ELSE c
LowerStr(s) == [i \in 1..Len(s) |-> Lower(s[i])]

IsSubstring(p, s) ==
    \E i \in 0..(Len(s) - Len(p)) : SubSeq(s, i + 1, i + Len(p)) = p

\* String.prototype.match(new RegExp(pattern, modifier)) is not null, for a
\* pattern of literal characters optionally anchored by ^ and $.
RegExpMatch(val, pattern, ignoreCase) ==
    LET anchored == Len(pattern) >= 2 /\ pattern[1] = "^" /\ pattern[Len(pattern)] = "$"
        body == IF anchored THEN SubSeq(pattern, 2, Len(pattern) - 1) ELSE pattern
        v == IF ignoreCase THEN LowerStr(val) ELSE val
        p == IF ignoreCase THEN LowerStr(body) ELSE body
    IN  IF anchored THEN v = p ELSE IsSubstring(p, v)

---------------------------------------------------------------------------
(* JavaScript values of the state flags *)

JSBool(b) == IF b THEN "true" ELSE "false"
\* ToBoolean of a flag value: null and undefined are falsy.
Truthy(v) == v = "true"
\* The ! operator
Not(v) == JSBool(~Truthy(v))

---------------------------------------------------------------------------
(* Node objects *)

\* new BSTreeViewNodeState()
BSTreeViewNodeState ==
    [checked |-> "false", disabled |-> "false", expanded |-> "null",
     selected |-> "false", _visible |-> "undefined"]

\* new BSTreeViewNode(treeView): the fields the engine reads. An index of -1
\* and an empty nodeId stand for undefined.
BSTreeViewNode ==
    [text |-> <<>>, state |-> BSTreeViewNodeState, nodes |-> <<>>,
     _searchResult |-> "undefined", _level |-> 1, _index |-> -1,
     _nodeId |-> <<>>, _parentNode |-> NullRef,
     lazyLoad |-> "false", selectable |-> TRUE, checkable |-> TRUE]

\* Object.assign(node, data) and the recursion over data.nodes: the object
\* of data node i of the description d gets identity base + i.
fromData(d, i, base) ==
    [BSTreeViewNode EXCEPT !.text = d.text[i],
                           !.state = d.state[i],
                           !.lazyLoad = d.lazyLoad[i],
                           !.nodes = [k \in 1..Len(d.nodes[i]) |-> base + d.nodes[i][k]]]

hasChildren(w, n) == Len(w.node[n].nodes) > 0

RECURSIVE Subtree(_, _)
\* n and its descendants in pre-order.
Subtree(w, n) ==
    <<n>> \o FoldLeft(LAMBDA acc, c : acc \o Subtree(w, c), <<>>, w.node[n].nodes)

\* The nodes of the tree in pre-order: what a walk from the root list visits.
TreeNodes(w) == FoldLeft(LAMBDA acc, r : acc \o Subtree(w, r), <<>>, w.tree)

Descendants(w, n) == Range(Subtree(w, n)) \ {n}

---------------------------------------------------------------------------
(* The world a handler runs in *)

World ==
    [options |-> options, node |-> node, tree |-> tree, flat |-> flat,
     ordered |-> ordered, indexed |-> indexed, checkedNodes |-> checkedNodes,
     initialized |-> initialized, events |-> <<>>, err |-> "none",
     lazyLoaded |-> <<>>]

\* throw: the first error wins, the statements after it do not run.
Throw(w, e) == IF w.err = "none" THEN [w EXCEPT !.err = e] ELSE w

Ok(w) == w.err = "none"

---------------------------------------------------------------------------
(* Hierarchy indexer *)

\* BSTreeView._registerNode: Map.prototype.set keeps the place of a key
\* that is already present.
_registerNode(w, n) ==
    LET id == w.node[n]._nodeId
    IN  IF \E i \in 1..Len(w.flat) : w.flat[i][1] = id
        THEN [w EXCEPT !.flat = [i \in 1..Len(w.flat) |->
                                    IF w.flat[i][1] = id THEN <<id, n>> ELSE w.flat[i]]]
        ELSE [w EXCEPT !.flat = Append(w.flat, <<id, n>>)]

\* The assignments _updateChildrenHierarchy makes to the child at the
\* zero-based position index of a parent (NullRef: the virtual root) whose
\* children get level new_level.
IndexChild(w, parent, new_level, c, index) ==
    LET nodeId == IF parent # NullRef /\ w.node[parent]._nodeId # <<>>
                  THEN w.node[parent]._nodeId \o <<".">> \o NumToStr(index)
                  ELSE NumToStr(new_level - 1) \o <<".">> \o NumToStr(index)
        st == w.node[c].state
        expanded == IF st.expanded = "null"
                    THEN JSBool(~Truthy(st.disabled) /\ new_level < w.options.levels
                                /\ hasChildren(w, c))
                    ELSE st.expanded
        visible == JSBool((parent # NullRef /\ Truthy(w.node[parent].state.expanded))
                          \/ new_level <= w.options.levels)
    IN  [w EXCEPT !.node[c]._level = new_level,
                  !.node[c]._index = index,
                  !.node[c]._nodeId = nodeId,
                  !.node[c]._parentNode = parent,
                  !.node[c].state.expanded = expanded,
                  !.node[c].state._visible = visible]

RECURSIVE UpdateChildren(_, _, _, _)

\* _updateChildrenHierarchy: if (node.hasChildren()) node._updateChildrenHierarchy()
IndexSubtree(w, c, new_level) ==
    IF hasChildren(w, c) THEN UpdateChildren(w, c, new_level + 1, w.node[c].nodes) ELSE w

\* BSTreeViewNode._updateChildrenHierarchy of a node with the children list
\* kids: each child is indexed, then its subtree, then it is registered.
UpdateChildren(w, parent, new_level, kids) ==
    LET step(acc, k) ==
            _registerNode(IndexSubtree(IndexChild(acc, parent, new_level, kids[k], k - 1),
                                       kids[k], new_level), kids[k])
    IN  FoldLeft(step, w, [k \in 1..Len(kids) |-> k])

\* The virtual root has level 0 and is not the parent of the real roots.
_updateChildrenHierarchy(w) == UpdateChildren(w, NullRef, 1, w.tree)

---------------------------------------------------------------------------
(* Render order *)

\* nodeId.split('.').map(parseInt)
IdPath(id) == LET parts == split(id, ".") IN [i \in 1..Len(parts) |-> parseInt(parts[i])]

RECURSIVE ComparePaths(_, _)
\* The loop of the comparator of _sortNodes over the parsed components of
\* two different keys: -1 or +1, and 2 where the code throws "Unable to
\* sort nodes".
ComparePaths(a, b) ==
    IF a = <<>> /\ b = <<>> THEN 2
    ELSE IF a = <<>> THEN -1
    ELSE IF b = <<>> THEN 1
    ELSE IF a[1] # b[1] THEN (IF a[1] - b[1] > 0 THEN 1 ELSE -1)
    ELSE ComparePaths(Tail(a), Tail(b))

\* The comparator of _sortNodes on two map keys.
CompareIds(idA, idB) == IF idA = idB THEN 0 ELSE ComparePaths(IdPath(idA), IdPath(idB))

RECURSIVE InsertSorted(_, _)
\* One step of a stable insertion sort by CompareIds.
InsertSorted(sorted, e) ==
    IF sorted = <<>> THEN <<e>>
    ELSE IF CompareIds(e[1], sorted[Len(sorted)][1]) = -1
         THEN Append(InsertSorted(SubSeq(sorted, 1, Len(sorted) - 1), e), sorted[Len(sorted)])
         ELSE Append(sorted, e)

\* BSTreeView._sortNodes: Array.prototype.sort of the map entries.
_sortNodes(w) ==
    IF \E i, j \in 1..Len(w.flat) : i < j /\ CompareIds(w.flat[i][1], w.flat[j][1]) = 2
    THEN Throw(w, "Error: Unable to sort nodes")
    ELSE [w EXCEPT !.ordered = FoldLeft(InsertSorted, <<>>, w.flat)]

\* BSTreeView._inheritCheckboxChanges: with showCheckbox and
\* highlightChanges the checked-node list becomes the nodes of the
\* render-ordered index whose checked is truthy.
_inheritCheckboxChanges(w) ==
    IF Ok(w) /\ w.options.showCheckbox /\ w.options.highlightChanges
    THEN [w EXCEPT !.checkedNodes =
            [defined |-> TRUE,
             nodes |-> SelectSeq([i \in 1..Len(w.ordered) |-> w.ordered[i][2]],
                                 LAMBDA n : Truthy(w.node[n].state.checked))]]
    ELSE w

\* BSTreeView._updateFlatTreeMaps
_updateFlatTreeMaps(w) ==
    IF ~Ok(w) THEN w
    ELSE _inheritCheckboxChanges(
             _sortNodes(_updateChildrenHierarchy([w EXCEPT !.flat = <<>>, !.indexed = TRUE])))

\* The node objects listed by the render-ordered index.
OrderedNodes(w) == [i \in 1..Len(w.ordered) |-> w.ordered[i][2]]

\* Map.prototype.get on _nodes: the node registered under id, or NullRef.
NodesGet(w, id) ==
    IF \E i \in 1..Len(w.flat) : w.flat[i][1] = id
    THEN w.flat[CHOOSE i \in 1..Len(w.flat) : w.flat[i][1] = id][2]
    ELSE NullRef

---------------------------------------------------------------------------
(* Queries *)

\* BSTreeView._getNodeValue(obj, attr) with attr a dotted path, given as the
\* sequence of its components: kind is "string" (val: the characters),
\* "undefined", or "throw" where toString is called on null.
_getNodeValue(obj, attr) ==
    LET o == IF Len(attr) = 2 THEN obj[attr[1]] ELSE obj
        a == attr[Len(attr)]
    IN  IF a \notin DOMAIN o THEN [kind |-> "undefined", val |-> <<>>]
        ELSE IF a = "text" THEN [kind |-> "string", val |-> o[a]]
        ELSE IF o[a] = "undefined" THEN [kind |-> "undefined", val |-> <<>>]
        ELSE IF o[a] = "null" THEN [kind |-> "throw", val |-> <<>>]
        ELSE [kind |-> "string", val |-> BoolChars(o[a])]

\* Whether BSTreeView._findNodes throws: the index does not exist yet, or
\* a scanned value is null.
_findNodesThrows(w, attribute) ==
    \/ ~w.indexed
    \/ \E i \in 1..Len(w.ordered) :
          _getNodeValue(w.node[w.ordered[i][2]], attribute).kind = "throw"

\* BSTreeView._findNodes(pattern, attribute, modifier): the matching nodes
\* in render order.
_findNodes(w, pattern, attribute, ignoreCase) ==
    LET hit(n) == LET v == _getNodeValue(w.node[n], attribute)
                  IN  v.kind = "string" /\ RegExpMatch(v.val, pattern, ignoreCase)
    IN  SelectSeq(OrderedNodes(w), hit)

TrueChars == <<"t", "r", "u", "e">>
FalseChars == <<"f", "a", "l", "s", "e">>

\* BSTreeView.getSelected
getSelected(w) == _findNodes(w, TrueChars, <<"state", "selected">>, FALSE)

\* BSTreeView.getChecked
getChecked(w) == _findNodes(w, TrueChars, <<"state", "checked">>, FALSE)

\* BSTreeView.getUnchecked
getUnchecked(w) == _findNodes(w, FalseChars, <<"state", "checked">>, FALSE)

\* BSTreeView.getSearchResults
getSearchResults(w) == _findNodes(w, TrueChars, <<"searchResult">>, FALSE)

---------------------------------------------------------------------------
(* Method options and notifications *)

\* new BSTreeViewMethodOptions() and its subclasses: the fields a mutator
\* reads (an absent _unselecting or keepState is falsy). A mutator copies
\* the options it is given with new ...Options(options): Object.assign in
\* the base constructor; _unselecting and keepState are declared without
\* an initializer, so the copy keeps the value given.
BSTreeViewMethodOptions ==
    [silent |-> FALSE, _force |-> FALSE, _unselecting |-> FALSE, keepState |-> FALSE]

\* {_force: true, silent: true}, the options of the calls of _renderNode
RenderOptions == [BSTreeViewMethodOptions EXCEPT !.silent = TRUE, !._force = TRUE]

\* BSTreeViewNode._triggerEvent, and BSTreeView._triggerEvent for n = NullRef
_triggerEvent(w, n, eventType, o) ==
    IF ~Ok(w) \/ o.silent THEN w
    ELSE [w EXCEPT !.events = Append(@, <<eventType, n>>)]

---------------------------------------------------------------------------
(* Node state mutators *)

\* BSTreeViewNode._setVisible
_setVisible(w, n, state, o) ==
    IF ~Ok(w) THEN w
    ELSE IF ~o._force /\ state = w.node[n].state._visible THEN w
    ELSE [w EXCEPT !.node[n].state._visible = state]

\* BSTreeViewNode._setSearchResult
_setSearchResult(w, n, state, o) ==
    IF ~Ok(w) THEN w
    ELSE IF ~o._force /\ state = w.node[n]._searchResult THEN w
    ELSE [w EXCEPT !.node[n]._searchResult = JSBool(Truthy(state))]

RECURSIVE setExpanded(_, _, _, _)
\* A setExpanded whose expand branch leaves the children as they are.
setExpanded_NoShow(w, n, state, o) ==
    IF ~Ok(w) THEN w
    ELSE IF ~o._force /\ state = w.node[n].state.expanded THEN w
    ELSE IF Truthy(state) /\ hasChildren(w, n)
    THEN _triggerEvent([w EXCEPT !.node[n].state.expanded = "true"], n, "nodeExpanded", o)
    ELSE IF ~Truthy(state)
    THEN _triggerEvent(
             FoldLeft(LAMBDA acc, c : setExpanded(_setVisible(acc, c, "false", o), c, "false", o),
                      [w EXCEPT !.node[n].state.expanded = "false"], w.node[n].nodes),
             n, "nodeCollapsed", o)
    ELSE w

\* BSTreeViewNode.setExpanded
setExpanded(w, n, state, o) ==
    IF ~Ok(w) THEN w
    ELSE IF ~o._force /\ state = w.node[n].state.expanded THEN w
    ELSE IF Truthy(state) /\ hasChildren(w, n)
    THEN LET w1 == [w EXCEPT !.node[n].state.expanded = "true"]
             w2 == FoldLeft(LAMBDA acc, c : _setVisible(acc, c, "true", o), w1, w1.node[n].nodes)
         IN  _triggerEvent(w2, n, "nodeExpanded", o)
    ELSE IF ~Truthy(state)
    THEN LET w1 == [w EXCEPT !.node[n].state.expanded = "false"]
             w2 == FoldLeft(LAMBDA acc, c : setExpanded(_setVisible(acc, c, "false", o), c, "false", o),
                            w1, w1.node[n].nodes)
         IN  _triggerEvent(w2, n, "nodeCollapsed", o)
    ELSE w

\* A setChecked that stores null whatever hierarchicalCheck says.
setChecked_KeepNull(w, n, state, o) ==
    IF ~Ok(w) THEN w
    ELSE IF ~o._force /\ state = w.node[n].state.checked THEN w
    ELSE IF Truthy(state)
    THEN _triggerEvent([w EXCEPT !.node[n].state.checked = "true"], n, "nodeChecked", o)
    ELSE _triggerEvent([w EXCEPT !.node[n].state.checked = state], n, "nodeUnchecked", o)

\* BSTreeViewNode.setChecked. With highlightChanges it reads
\* _checkedNodes.indexOf(this), a TypeError if the list is undefined, to
\* mark the element; the mark is no state of the engine.
setChecked(w, n, state, o) ==
    IF ~Ok(w) THEN w
    ELSE IF ~o._force /\ state = w.node[n].state.checked THEN w
    ELSE IF w.options.highlightChanges /\ ~w.checkedNodes.defined THEN Throw(w, "TypeError")
    ELSE IF Truthy(state)
    THEN _triggerEvent([w EXCEPT !.node[n].state.checked = "true"], n, "nodeChecked", o)
    ELSE IF state = "null" /\ w.options.hierarchicalCheck
    THEN _triggerEvent([w EXCEPT !.node[n].state.checked = "null"], n, "nodeUnchecked", o)
    ELSE _triggerEvent([w EXCEPT !.node[n].state.checked = "false"], n, "nodeUnchecked", o)

RECURSIVE setSelected(_, _, _, _)

\* A setSelected that leaves the previously selected nodes alone.
UnselectPrevious_None(w, o) == w

\* setSelected, multiSelect off: every node _findNodes reports selected is
\* unselected with the internal _unselecting flag set.
UnselectPrevious(w, o) ==
    IF _findNodesThrows(w, <<"state", "selected">>) THEN Throw(w, "TypeError")
    ELSE FoldLeft(LAMBDA acc, m : setSelected(acc, m, "false", [o EXCEPT !._unselecting = TRUE]),
                  w, getSelected(w))

\* A setSelected that never refuses to unselect.
UnselectRefused_Never(w, o) == FALSE

\* setSelected: whether the unselect is refused (preventUnselect on, not an
\* internal unselect, one selected node left).
UnselectRefused(w, o) ==
    w.options.preventUnselect /\ ~o._unselecting /\ Len(getSelected(w)) = 1

\* setSelected: this.state.selected = true and the nodeSelected
\* notification (its options carry _unselecting if a node was unselected;
\* a notification does not read it).
MarkSelected(w, n, o) ==
    IF ~Ok(w) THEN w
    ELSE _triggerEvent([w EXCEPT !.node[n].state.selected = "true"], n, "nodeSelected", o)

\* BSTreeViewNode.setSelected
setSelected(w, n, state, o) ==
    IF ~Ok(w) THEN w
    ELSE IF ~o._force /\ state = w.node[n].state.selected THEN w
    ELSE IF Truthy(state)
    THEN MarkSelected(IF ~w.options.multiSelect THEN UnselectPrevious(w, o) ELSE w, n, o)
    ELSE IF w.options.preventUnselect /\ ~o._unselecting
            /\ _findNodesThrows(w, <<"state", "selected">>)
    THEN Throw(w, "TypeError")
    ELSE IF UnselectRefused(w, o)
    THEN (IF w.options.allowReselect THEN _triggerEvent(w, n, "nodeSelected", o) ELSE w)
    ELSE _triggerEvent([w EXCEPT !.node[n].state.selected = "false"], n, "nodeUnselected", o)

\* A setDisabled that clears the other states whatever keepState says.
DisableOtherStates_Always(w, n, o) ==
    setExpanded(setChecked(setSelected(w, n, "false", o), n, "false", o), n, "false", o)

\* setDisabled, disabling without keepState: the other states are cleared.
DisableOtherStates(w, n, o) ==
    IF o.keepState THEN w
    ELSE setExpanded(setChecked(setSelected(w, n, "false", o), n, "false", o), n, "false", o)

\* A setDisabled that does not return early on the value the node has.
setDisabled_Again(w, n, state, o) ==
    IF ~Ok(w) THEN w
    ELSE IF Truthy(state)
    THEN _triggerEvent(DisableOtherStates([w EXCEPT !.node[n].state.disabled = "true"], n, o),
                       n, "nodeDisabled", o)
    ELSE _triggerEvent([w EXCEPT !.node[n].state.disabled = "false"], n, "nodeDisabled", o)

\* BSTreeViewNode.setDisabled
setDisabled(w, n, state, o) ==
    IF ~Ok(w) THEN w
    ELSE IF ~o._force /\ state = w.node[n].state.disabled THEN w
    ELSE IF Truthy(state)
    THEN _triggerEvent(DisableOtherStates([w EXCEPT !.node[n].state.disabled = "true"], n, o),
                       n, "nodeDisabled", o)
    ELSE _triggerEvent([w EXCEPT !.node[n].state.disabled = "false"], n, "nodeDisabled", o)

---------------------------------------------------------------------------
(* Hierarchical checking *)

\* get parentId of node n: this._parentNode._nodeId ?? null. The result is
\* [throws, id]; id <<>> stands for null. Reading _nodeId of a null
\* _parentNode is a TypeError.
parentId(w, n) ==
    IF w.node[n]._parentNode = NullRef THEN [throws |-> TRUE, id |-> <<>>]
    ELSE [throws |-> FALSE, id |-> w.node[w.node[n]._parentNode]._nodeId]

\* A reduce that returns the state of the first child.
ChildrenState_First(w, p) == w.node[w.node[p].nodes[1]].state.checked

\* toggleChecked: the reduce over the children of an ancestor: the value
\* all children agree on, else null.
ChildrenState(w, p) ==
    LET kids == w.node[p].nodes
        combine(acc, c) == IF acc = w.node[c].state.checked THEN acc ELSE "null"
    IN  FoldLeft(combine, w.node[kids[1]].state.checked, kids)

RECURSIVE CheckAncestors(_, _, _)
\* toggleChecked: currentNode = _nodes.get(currentNode.parentId) and the
\* loop over the ancestors, from the node cur.
CheckAncestors(w, cur, childOptions) ==
    IF ~Ok(w) THEN w
    ELSE LET pid == parentId(w, cur)
         IN  IF pid.throws THEN Throw(w, "TypeError")
             ELSE LET p == NodesGet(w, pid.id)
                  IN  IF p = NullRef THEN w
                      ELSE IF w.node[p].nodes = <<>> THEN Throw(w, "TypeError")
                      ELSE CheckAncestors(setChecked(w, p, ChildrenState(w, p), childOptions),
                                          p, childOptions)

RECURSIVE CheckDescendants(_, _, _, _)
\* toggleChecked: the work list over the descendants: pop the last entry,
\* set it to the value of n, append its children.
CheckDescendants(w, n, children, childOptions) ==
    IF ~Ok(w) \/ children = <<>> THEN w
    ELSE LET child == children[Len(children)]
             rest == SubSeq(children, 1, Len(children) - 1)
         IN  CheckDescendants(setChecked(w, child, w.node[n].state.checked, childOptions),
                              n, rest \o w.node[child].nodes, childOptions)

\* toggleChecked: childOptions.silent = options.silent || !propagateCheckEvent
ChildOptions(w, o) == [o EXCEPT !.silent = o.silent \/ ~w.options.propagateCheckEvent]

\* toggleChecked: this.state.checked = !this.state.checked (the temporary
\* swap and the swap back)
SwapChecked(w, n) == IF Ok(w) THEN [w EXCEPT !.node[n].state.checked = Not(@)] ELSE w

\* toggleChecked: the work list starts as a copy of the children of n.
CheckSubtree(w, n, childOptions) ==
    IF Ok(w) THEN CheckDescendants(w, n, w.node[n].nodes, childOptions) ELSE w

\* toggleChecked: this.setChecked(!this.state.checked, options)
SetToggled(w, n, o) == IF Ok(w) THEN setChecked(w, n, Not(w.node[n].state.checked), o) ELSE w

\* BSTreeViewNode.toggleChecked
toggleChecked(w, n, o) ==
    IF ~Ok(w) THEN w
    ELSE IF w.options.hierarchicalCheck
    THEN SetToggled(SwapChecked(CheckSubtree(CheckAncestors(SwapChecked(w, n), n, ChildOptions(w, o)),
                                             n, ChildOptions(w, o)), n), n, o)
    ELSE SetToggled(w, n, o)

---------------------------------------------------------------------------
(* Rendering *)

\* _renderNode: this.setSelected(this.state.selected, {_force: true, silent: true})
\* and the five calls after it, each with the state the node has by then.
RenderSelected(w, n) == setSelected(w, n, w.node[n].state.selected, RenderOptions)
RenderChecked(w, n) == setChecked(w, n, w.node[n].state.checked, RenderOptions)
RenderSearchResult(w, n) == _setSearchResult(w, n, w.node[n]._searchResult, RenderOptions)
RenderExpanded(w, n) == setExpanded(w, n, w.node[n].state.expanded, RenderOptions)

\* A render that leaves state.disabled as the data gave it.
RenderDisabled_AsGiven(w, n) == w

\* _renderNode: this.setDisabled(this.state.disabled, {_force: true, silent: true})
RenderDisabled(w, n) == setDisabled(w, n, w.node[n].state.disabled, RenderOptions)
RenderVisible(w, n) == _setVisible(w, n, w.node[n].state._visible, RenderOptions)

\* A _renderNode that does not reconcile the selected state.
_renderNode_KeepSelected(w, n) ==
    _triggerEvent(RenderVisible(RenderDisabled(RenderExpanded(RenderSearchResult(
                      RenderChecked(w, n), n), n), n), n),
                  n, "nodeRendered", BSTreeViewMethodOptions)

\* BSTreeViewNode._renderNode: the forced, silent state calls that
\* reconcile the element, and the nodeRendered notification.
_renderNode(w, n) ==
    _triggerEvent(RenderVisible(RenderDisabled(RenderExpanded(RenderSearchResult(
                      RenderChecked(RenderSelected(w, n), n), n), n), n), n),
                  n, "nodeRendered", BSTreeViewMethodOptions)

\* A render that raises the initialized notification as well.
_render_Initialized(w) ==
    IF ~Ok(w) THEN w
    ELSE _triggerEvent(
             _triggerEvent(FoldLeft(_renderNode, [w EXCEPT !.initialized = TRUE], OrderedNodes(w)),
                           NullRef, "rendered", BSTreeViewMethodOptions),
             NullRef, "initialized", BSTreeViewMethodOptions)

\* BSTreeView._render
_render(w) ==
    IF ~Ok(w) THEN w
    ELSE _triggerEvent(FoldLeft(_renderNode, [w EXCEPT !.initialized = TRUE], OrderedNodes(w)),
                       NullRef, "rendered", BSTreeViewMethodOptions)

---------------------------------------------------------------------------
(* Tree operations *)

RECURSIVE _expandLevels(_, _, _, _)
\* BSTreeView._expandLevels: each node is expanded if level > 0 and
\* collapsed otherwise, then its children with level - 1.
_expandLevels(w, ns, level, o) ==
    FoldLeft(LAMBDA acc, n : _expandLevels(setExpanded(acc, n, JSBool(level > 0), o),
                                           acc.node[n].nodes, level - 1, o),
             w, ns)

\* new BSTreeViewExpandOptions()
BSTreeViewExpandOptions == [silent |-> FALSE, _force |-> FALSE, levels |-> 999]

\* The fields of the expand options a mutator reads.
ExpandMethodOptions(eo) ==
    [BSTreeViewMethodOptions EXCEPT !.silent = eo.silent, !._force = eo._force]

\* BSTreeViewNode._lazyLoad: the hook options.lazyLoad is called with the
\* node (lazyLoaded lists the calls a handler makes), and the flag of the
\* node is cleared.
_lazyLoad(w, n) ==
    IF ~Ok(w) \/ ~Truthy(w.node[n].lazyLoad) THEN w
    ELSE IF w.options.lazyLoad # "function" THEN Throw(w, "TypeError")
    ELSE [w EXCEPT !.lazyLoaded = Append(@, n), !.node[n].lazyLoad = "false"]

\* BSTreeViewNode.toggleExpanded: the lazy load is tried if the lazyLoad
\* field of the node itself is a function.
toggleExpanded(w, n, o) ==
    IF ~Ok(w) THEN w
    ELSE IF w.node[n].lazyLoad = "function" THEN _lazyLoad(w, n)
    ELSE setExpanded(w, n, Not(w.node[n].state.expanded), o)

\* expandNode: node._lazyLoad() if options.lazyLoad is a function and the
\* node is flagged.
LazyLoadFirst(w, n) ==
    IF w.options.lazyLoad = "function" /\ Truthy(w.node[n].lazyLoad)
    THEN _lazyLoad(w, n)
    ELSE w

\* BSTreeView.expandNode: a node that is not expanded is lazy-loaded if it
\* can be and expanded, then its children by levels - 1.
expandNode(w, ns, eo) ==
    FoldLeft(LAMBDA acc, n :
                 IF ~Ok(acc) \/ Truthy(acc.node[n].state.expanded) THEN acc
                 ELSE _expandLevels(setExpanded(LazyLoadFirst(acc, n), n, "true",
                                                ExpandMethodOptions(eo)),
                                    acc.node[n].nodes, eo.levels - 1, ExpandMethodOptions(eo)),
             w, ns)

\* BSTreeView._clickHandler, for a click on the expand icon, on the check
\* icon or elsewhere on the element of the node n: nothing for a disabled
\* node, else the toggle the target stands for, with default options.
_clickHandler(w, n, target) ==
    IF ~Ok(w) \/ Truthy(w.node[n].state.disabled) THEN w
    ELSE IF target = "expand-icon" THEN toggleExpanded(w, n, BSTreeViewMethodOptions)
    ELSE IF target = "check-icon"
    THEN (IF w.node[n].checkable THEN toggleChecked(w, n, BSTreeViewMethodOptions) ELSE w)
    ELSE IF w.node[n].selectable
    THEN setSelected(w, n, Not(w.node[n].state.selected), BSTreeViewMethodOptions)
    ELSE toggleExpanded(w, n, BSTreeViewMethodOptions)

\* BSTreeView.collapseNode
collapseNode(w, ns, eo) ==
    FoldLeft(LAMBDA acc, n : setExpanded(acc, n, "false", ExpandMethodOptions(eo)), w, ns)

\* BSTreeView.expandAll: options.levels = options.levels || 999, then the
\* roots are expanded.
expandAll(w, eo) ==
    expandNode(w, w.tree, [eo EXCEPT !.levels = IF @ = 0 THEN 999 ELSE @])

\* BSTreeView.collapseAll: the roots are collapsed.
collapseAll(w, eo) ==
    collapseNode(w, w.tree, [eo EXCEPT !.levels = IF @ = 0 THEN 999 ELSE @])

\* A revealNode that expands the parent only.
RevealUp_ParentOnly(w, n, o) ==
    IF ~Ok(w) \/ w.node[n]._parentNode = NullRef THEN w
    ELSE setExpanded(w, w.node[n]._parentNode, "true", o)

\* BSTreeView.revealNode: every ancestor is expanded, from the node up.
RECURSIVE RevealUp(_, _, _)
RevealUp(w, n, o) ==
    IF ~Ok(w) \/ w.node[n]._parentNode = NullRef THEN w
    ELSE LET p == w.node[n]._parentNode
         IN  RevealUp(setExpanded(w, p, "true", o), p, o)

revealNode(w, ns, o) == FoldLeft(LAMBDA acc, n : RevealUp(acc, n, o), w, ns)

\* BSTreeView._diffArray(a, b): the elements of b that are not in a.
_diffArray(a, b) == SelectSeq(b, LAMBDA x : ~Includes(a, x))

\* new BSTreeSearchOptions()
BSTreeSearchOptions ==
    [silent |-> FALSE, _force |-> FALSE, ignoreCase |-> TRUE, exactMatch |-> FALSE,
     revealResults |-> TRUE]

\* search: the pattern handed to _findNodes.
SearchPattern(pattern, so) ==
    IF so.exactMatch THEN <<"^">> \o pattern \o <<"$">> ELSE pattern

\* search: the nodes whose text matches, in render order.
SearchResults(w, pattern, so) ==
    IF Len(pattern) > 0
    THEN _findNodes(w, SearchPattern(pattern, so), <<"text">>, so.ignoreCase)
    ELSE <<>>

\* The fields of the search options a mutator reads.
SearchMethodOptions(so) ==
    [BSTreeViewMethodOptions EXCEPT !.silent = so.silent, !._force = so._force]

\* search, clearSearch: forEach(node => node._setSearchResult(state, options))
SetSearchResults(w, ns, state, o) ==
    FoldLeft(LAMBDA acc, n : _setSearchResult(acc, n, state, o), w, ns)

\* search: the results are revealed, with the default options of revealNode.
RevealResults(w, results, so) ==
    IF so.revealResults THEN revealNode(w, results, BSTreeViewMethodOptions) ELSE w

\* BSTreeView.search
search(w, pattern, so) ==
    IF _findNodesThrows(w, <<"searchResult">>) THEN Throw(w, "TypeError")
    ELSE _triggerEvent(
             RevealResults(
                 SetSearchResults(
                     SetSearchResults(w, _diffArray(SearchResults(w, pattern, so), getSearchResults(w)),
                                      "false", SearchMethodOptions(so)),
                     _diffArray(getSearchResults(w), SearchResults(w, pattern, so)),
                     "true", SearchMethodOptions(so)),
                 SearchResults(w, pattern, so), so),
             NullRef, "searchCompleted", SearchMethodOptions(so))

\* BSTreeView.clearSearch
clearSearch(w, so) ==
    IF _findNodesThrows(w, <<"searchResult">>) THEN Throw(w, "TypeError")
    ELSE _triggerEvent(SetSearchResults(w, getSearchResults(w), "false", SearchMethodOptions(so)),
                       NullRef, "searchCleared", SearchMethodOptions(so))

\* BSTreeView.disableAll: the nodes _findNodes('false', 'state.disabled')
\* returns are disabled.
disableAll(w, o) ==
    IF _findNodesThrows(w, <<"state", "disabled">>) THEN Throw(w, "TypeError")
    ELSE FoldLeft(LAMBDA acc, n : setDisabled(acc, n, "true", o),
                  w, _findNodes(w, FalseChars, <<"state", "disabled">>, FALSE))

\* BSTreeView.enableAll: the nodes _findNodes('true', 'state.disabled')
\* returns are enabled.
enableAll(w, o) ==
    IF _findNodesThrows(w, <<"state", "disabled">>) THEN Throw(w, "TypeError")
    ELSE FoldLeft(LAMBDA acc, n : setDisabled(acc, n, "false", o),
                  w, _findNodes(w, TrueChars, <<"state", "disabled">>, FALSE))

\* BSTreeView.checkAll: every node of the index that is not checked when
\* the loop reaches it is checked.
checkAll(w, o) ==
    IF ~w.indexed THEN Throw(w, "TypeError")
    ELSE FoldLeft(LAMBDA acc, n : IF Ok(acc) /\ ~Truthy(acc.node[n].state.checked)
                                  THEN setChecked(acc, n, "true", o) ELSE acc,
                  w, OrderedNodes(w))

\* BSTreeView.uncheckAll: every node of the index whose checked is truthy
\* or undefined is unchecked.
uncheckAll(w, o) ==
    IF ~w.indexed THEN Throw(w, "TypeError")
    ELSE FoldLeft(LAMBDA acc, n : IF Ok(acc) /\ (Truthy(acc.node[n].state.checked)
                                                 \/ acc.node[n].state.checked = "undefined")
                                  THEN setChecked(acc, n, "false", o) ELSE acc,
                  w, OrderedNodes(w))

\* An addNode that splices every node in at index.
InsertNodes_AtIndex(targetNodes, ns, hasIndex, index) ==
    LET step(acc, i) ==
            Splice(acc, IF hasIndex THEN index ELSE Len(acc) + 1, 0, <<ns[i]>>)
    IN  FoldLeft(step, targetNodes, [i \in 1..Len(ns) |-> i])

\* addNode: the nodes are spliced into the target list one by one, at
\* index + i or, without a numeric index, at length + 1.
InsertNodes(targetNodes, ns, hasIndex, index) ==
    LET step(acc, i) ==
            Splice(acc, IF hasIndex THEN index + (i - 1) ELSE Len(acc) + 1, 0, <<ns[i]>>)
    IN  FoldLeft(step, targetNodes, [i \in 1..Len(ns) |-> i])

\* addNode: a parent that is not expanded is expanded.
ExpandParent(w, parentNode, o) ==
    IF Ok(w) /\ parentNode # NullRef /\ ~Truthy(w.node[parentNode].state.expanded)
    THEN setExpanded(w, parentNode, "true", o)
    ELSE w

\* BSTreeView.addNode(nodes, parentNode, index, options); parentNode
\* NullRef inserts into the root list.
addNode(w, ns, parentNode, hasIndex, index, o) ==
    _render(ExpandParent(_updateFlatTreeMaps(
        IF parentNode # NullRef
        THEN [w EXCEPT !.node[parentNode].nodes = InsertNodes(@, ns, hasIndex, index)]
        ELSE [w EXCEPT !.tree = InsertNodes(@, ns, hasIndex, index)]), parentNode, o))

\* removeNode, updateNode: the list a node is spliced out of: the children
\* of the node the flat map holds under its parentId, else the root list.
SpliceAtNode(w, n, items) ==
    LET pid == parentId(w, n)
    IN  IF ~Ok(w) THEN w
        ELSE IF pid.throws THEN Throw(w, "TypeError")
        ELSE LET parentNode == NodesGet(w, pid.id)
             IN  IF parentNode # NullRef
                 THEN [w EXCEPT !.node[parentNode].nodes = Splice(@, w.node[n]._index, 1, items)]
                 ELSE [w EXCEPT !.tree = Splice(@, w.node[n]._index, 1, items)]

\* BSTreeView.removeNode
removeNode(w, ns) ==
    _render(_updateFlatTreeMaps(FoldLeft(LAMBDA acc, n : SpliceAtNode(acc, n, <<>>), w, ns)))

\* BSTreeView.updateNode
updateNode(w, n, newNode) ==
    _render(_updateFlatTreeMaps(SpliceAtNode(w, n, <<newNode>>)))

---------------------------------------------------------------------------
(* Input data *)

RECURSIVE IsAncestorOrSelf(_, _, _)
\* In the parent vector p, a is i or an ancestor of i.
IsAncestorOrSelf(p, a, i) ==
    IF i = 0 THEN FALSE ELSE IF a = i THEN TRUE ELSE IsAncestorOrSelf(p, a, p[i])

\* The forests of n nodes numbered in pre-order, as parent vectors (0: a root).
Forests(n) ==
    {p \in [1..n -> 0..(n - 1)] :
        \A i \in 1..n : /\ p[i] < i
                        /\ i > 1 => (p[i] = 0 \/ IsAncestorOrSelf(p, p[i], i - 1))}

RECURSIVE DepthIn(_, _)
DepthIn(p, i) == IF p[i] = 0 THEN 1 ELSE 1 + DepthIn(p, p[i])

\* The children of a (0: the roots) in the parent vector p, in order.
ChildrenIn(p, a) == SelectSeq([i \in 1..Len(p) |-> i], LAMBDA i : p[i] = a)

\* The mandatory text of a data node: by depth "P", "C", "Gc" (a parent, a
\* child, a grandchild whose text contains the child's up to case).
TextAt(depth) ==
    IF depth = 1 THEN <<"P">> ELSE IF depth = 2 THEN <<"C">> ELSE <<"G", "c">>

\* A data description: the forest p with the state object st[i] on node i.
Description(p, st) ==
    [n |-> Len(p), roots |-> ChildrenIn(p, 0),
     nodes |-> [i \in 1..Len(p) |-> ChildrenIn(p, i)],
     text |-> [i \in 1..Len(p) |-> TextAt(DepthIn(p, i))],
     state |-> st,
     lazyLoad |-> [i \in 1..Len(p) |-> "false"]]

NoData ==
    [n |-> 0, roots |-> <<>>, nodes |-> <<>>, text |-> <<>>, state |-> <<>>,
     lazyLoad |-> <<>>]

\* The descriptions of up to k nodes whose state objects come from States.
Descriptions(k, States) ==
    UNION {{Description(p, st) : p \in Forests(n), st \in [1..n -> States]} : n \in 1..k}

\* A state object of the data: the flags given; _visible is never given.
DataState(selected, checked, expanded, disabled) ==
    [checked |-> checked, disabled |-> disabled, expanded |-> expanded,
     selected |-> selected, _visible |-> "undefined"]

\* new BSTreeViewOptions(): the options the engine reads, at their defaults.
BSTreeViewOptions ==
    [multiSelect |-> FALSE, preventUnselect |-> FALSE, allowReselect |-> FALSE,
     hierarchicalCheck |-> FALSE, propagateCheckEvent |-> FALSE, levels |-> 1,
     showCheckbox |-> FALSE, highlightChanges |-> FALSE, lazyLoad |-> "undefined"]

---------------------------------------------------------------------------
(* Handlers as actions *)

RECURSIVE Closure(_, _)
\* The node objects reachable from those of S by nodes and _parentNode.
Closure(w, S) ==
    LET T == S \cup UNION {Range(w.node[n].nodes) : n \in S}
                \cup ({w.node[n]._parentNode : n \in S} \ {NullRef})
    IN  IF T = S THEN S ELSE Closure(w, T)

\* The node objects something still refers to: those reachable from the
\* root list, from an entry of the maps or from the checked-node list. The
\* others are garbage.
Live(w) ==
    Closure(w, Range(w.tree) \cup {w.flat[i][2] : i \in 1..Len(w.flat)}
                             \cup {w.ordered[i][2] : i \in 1..Len(w.ordered)}
                             \cup Range(w.checkedNodes.nodes))

RECURSIVE Ascending(_)
Ascending(S) ==
    IF S = {} THEN <<>>
    ELSE LET m == CHOOSE x \in S : \A y \in S : x <= y IN <<m>> \o Ascending(S \ {m})

\* The k smallest free identities, ascending; shorter if fewer are free.
FreshIds(free, k) ==
    LET a == Ascending(free) IN SubSeq(a, 1, IF k < Len(a) THEN k ELSE Len(a))

\* Object identities carry no meaning: the live objects are renamed 1, 2, ...
\* in the order of a walk of the tree, then of the render-ordered index.
NewNames(w) ==
    LET walk == TreeNodes(w)
        kept == SelectSeq(OrderedNodes(w), LAMBDA n : ~Includes(walk, n))
        rest == Ascending(Live(w) \ (Range(walk) \cup Range(kept)))
        order == walk \o kept \o rest
    IN  [n \in 0..MaxNodes |->
            IF Includes(order, n) THEN CHOOSE k \in 1..Len(order) : order[k] = n ELSE NullRef]

Renamed(w, m) ==
    LET names(seq) == [i \in 1..Len(seq) |-> m[seq[i]]]
        entries(map) == [i \in 1..Len(map) |-> <<map[i][1], m[map[i][2]]>>]
        old(k) == CHOOSE n \in Ids : m[n] = k
    IN  [w EXCEPT !.node = [k \in Ids |->
                              IF \E n \in Ids : m[n] = k
                              THEN [w.node[old(k)] EXCEPT !.nodes = names(@),
                                                          !._parentNode = m[@]]
                              ELSE BSTreeViewNode],
                  !.tree = names(@),
                  !.flat = entries(@),
                  !.ordered = entries(@),
                  !.checkedNodes.nodes = names(@),
                  !.events = entries(@)]

\* What the last handler was called with.
Last(op, ns, flag, str) == [op |-> op, nodes |-> ns, flag |-> flag, str |-> str]

\* The variables take the fields of the world r; last is l.
Install(r, l, pending) ==
    /\ options' = r.options
    /\ node' = r.node
    /\ tree' = r.tree
    /\ flat' = r.flat
    /\ ordered' = r.ordered
    /\ indexed' = r.indexed
    /\ checkedNodes' = r.checkedNodes
    /\ initialized' = r.initialized
    /\ events' = r.events
    /\ err' = r.err
    /\ last' = l
    /\ loading' = pending

\* The names of the nodes a handler was called with, after the renaming m.
LastRenamed(l, m) == [l EXCEPT !.nodes = [i \in 1..Len(l.nodes) |-> m[l.nodes[i]]]]

\* The handler returns or throws: the fields of the world it leaves.
Commit(w, l) == Install(Renamed(w, NewNames(w)), LastRenamed(l, NewNames(w)), loading)

\* The nodes a caller can hold: those getNodes() lists.
Targets == IF indexed THEN Range(OrderedNodes(World)) ELSE {}

\* _init: this._tree = data.map(dataNode => BSTreeViewNode.fromData(dataNode, this))
Loaded(w, d) ==
    [w EXCEPT !.tree = d.roots,
              !.node = [n \in Ids |-> IF n <= d.n THEN fromData(d, n, 0) ELSE BSTreeViewNode]]

\* The catch callback raises nothing.
LoadOutcome_Quiet(w) ==
    IF Ok(w) THEN _triggerEvent(w, NullRef, "initialized", BSTreeViewMethodOptions)
    ELSE w

\* _init: the initialized notification, or in the catch callback the
\* loadingFailed notification.
LoadOutcome(w) ==
    IF Ok(w) THEN _triggerEvent(w, NullRef, "initialized", BSTreeViewMethodOptions)
    ELSE [w EXCEPT !.events = Append(@, <<"loadingFailed", NullRef>>)]

\* The load has settled.
Settled == [pending |-> FALSE, data |-> NoData, error |-> "none"]

\* _init, when the promise of _load resolves with the data: the then
\* callback, and the catch callback if it throws.
LoadDone ==
    /\ loading.pending
    /\ loading.error = "none"
    /\ Install(LoadOutcome(_render(_updateFlatTreeMaps(Loaded(World, loading.data)))),
               Last("load", <<>>, FALSE, <<>>), Settled)

\* _init, when the promise of _load rejects (_loadLocalData: JSON.parse
\* throws; _loadRemoteData: fetch or response.json() rejects): the catch
\* callback, which raises loadingFailed and throws the error again.
LoadFailed ==
    /\ loading.pending
    /\ loading.error # "none"
    /\ Install(LoadOutcome(Throw(World, loading.error)),
               Last("load", <<>>, TRUE, <<loading.error>>), Settled)

SelectNode(n) ==
    Commit(setSelected(World, n, "true", BSTreeViewMethodOptions),
           Last("selectNode", <<n>>, FALSE, <<>>))

UnselectNode(n) ==
    Commit(setSelected(World, n, "false", BSTreeViewMethodOptions),
           Last("unselectNode", <<n>>, FALSE, <<>>))

\* toggleNodeSelected: BSTreeViewNode.toggleSelected
ToggleNodeSelected(n) ==
    Commit(setSelected(World, n, Not(node[n].state.selected), BSTreeViewMethodOptions),
           Last("toggleNodeSelected", <<n>>, FALSE, <<>>))

CheckNode(n) ==
    Commit(setChecked(World, n, "true", BSTreeViewMethodOptions),
           Last("checkNode", <<n>>, FALSE, <<>>))

UncheckNode(n) ==
    Commit(setChecked(World, n, "false", BSTreeViewMethodOptions),
           Last("uncheckNode", <<n>>, FALSE, <<>>))

ToggleNodeChecked(n) ==
    Commit(toggleChecked(World, n, BSTreeViewMethodOptions),
           Last("toggleNodeChecked", <<n>>, FALSE, <<>>))

\* toggleNodeExpanded: BSTreeViewNode.toggleExpanded of the node
ToggleNodeExpanded(n) ==
    Commit(toggleExpanded(World, n, BSTreeViewMethodOptions),
           Last("toggleNodeExpanded", <<n>>, FALSE, <<>>))

DisableNode(n, keepState) ==
    Commit(setDisabled(World, n, "true", [BSTreeViewMethodOptions EXCEPT !.keepState = keepState]),
           Last("disableNode", <<n>>, keepState, <<>>))

EnableNode(n) ==
    Commit(setDisabled(World, n, "false", BSTreeViewMethodOptions),
           Last("enableNode", <<n>>, FALSE, <<>>))

Search(pattern, so) ==
    Commit(search(World, pattern, so), Last("search", <<>>, so.exactMatch, pattern))

ClearSearch ==
    Commit(clearSearch(World, BSTreeSearchOptions), Last("clearSearch", <<>>, FALSE, <<>>))

\* addNode of k node objects created from data with the state objects sts,
\* under parentNode (NullRef: as roots), at index if hasIndex.
AddNode(sts, parentNode, hasIndex, index) ==
    LET ns == FreshIds(Ids \ Live(World), Len(sts))
        created == [n \in Ids |->
                      IF Includes(ns, n)
                      THEN [BSTreeViewNode EXCEPT
                              !.text = <<"C">>,
                              !.state = sts[CHOOSE i \in 1..Len(ns) : ns[i] = n]]
                      ELSE node[n]]
    IN  /\ Len(ns) = Len(sts)
        /\ Commit(addNode([World EXCEPT !.node = created], ns, parentNode, hasIndex, index,
                          BSTreeViewMethodOptions),
                  Last("addNode", ns, hasIndex, <<>>))

RemoveNode(ns) ==
    Commit(removeNode(World, ns), Last("removeNode", ns, FALSE, <<>>))

\* updateNode(n, newNode) with newNode created from data with state object st
UpdateNode(n, st) ==
    LET ns == FreshIds(Ids \ Live(World), 1)
    IN  /\ Len(ns) = 1
        /\ Commit(updateNode([World EXCEPT !.node[ns[1]] =
                                 [BSTreeViewNode EXCEPT !.text = <<"C">>, !.state = st]],
                             n, ns[1]),
                  Last("updateNode", <<n, ns[1]>>, FALSE, <<>>))

ExpandNode(n, levels) ==
    Commit(expandNode(World, <<n>>, [BSTreeViewExpandOptions EXCEPT !.levels = levels]),
           Last("expandNode", <<n>>, FALSE, <<>>))

CollapseNode(n) ==
    Commit(collapseNode(World, <<n>>, BSTreeViewExpandOptions),
           Last("collapseNode", <<n>>, FALSE, <<>>))

DisableAll ==
    Commit(disableAll(World, BSTreeViewMethodOptions), Last("disableAll", <<>>, FALSE, <<>>))

EnableAll ==
    Commit(enableAll(World, BSTreeViewMethodOptions), Last("enableAll", <<>>, FALSE, <<>>))

ExpandAll ==
    Commit(expandAll(World, BSTreeViewExpandOptions), Last("expandAll", <<>>, FALSE, <<>>))

CollapseAll ==
    Commit(collapseAll(World, BSTreeViewExpandOptions), Last("collapseAll", <<>>, FALSE, <<>>))

CheckAll ==
    Commit(checkAll(World, BSTreeViewMethodOptions), Last("checkAll", <<>>, FALSE, <<>>))

UncheckAll ==
    Commit(uncheckAll(World, BSTreeViewMethodOptions), Last("uncheckAll", <<>>, FALSE, <<>>))

\* The methods of a node object the caller holds, called with the value
\* state and default options.
NodeSetSelected(n, state) ==
    Commit(setSelected(World, n, state, BSTreeViewMethodOptions),
           Last("setSelected", <<n>>, FALSE, <<state>>))

NodeSetChecked(n, state) ==
    Commit(setChecked(World, n, state, BSTreeViewMethodOptions),
           Last("setChecked", <<n>>, FALSE, <<state>>))

NodeSetExpanded(n, state) ==
    Commit(setExpanded(World, n, state, BSTreeViewMethodOptions),
           Last("setExpanded", <<n>>, FALSE, <<state>>))

NodeSetDisabled(n, state, keepState) ==
    Commit(setDisabled(World, n, state, [BSTreeViewMethodOptions EXCEPT !.keepState = keepState]),
           Last("setDisabled", <<n>>, keepState, <<state>>))

\* _init, before the load: this._triggerEvent(EVENT_LOADING, null,
\* new BSTreeViewMethodOptions({silent: true})) on the new tree.
Constructed ==
    _triggerEvent([events |-> <<>>, err |-> "none"], NullRef, "loading",
                  [BSTreeViewMethodOptions EXCEPT !.silent = TRUE])

\* A pending load whose promise will resolve with the data d (error "none")
\* or reject with the error.
Pending(d, error) == [pending |-> TRUE, data |-> d, error |-> error]

\* After construction: _init has set the root list empty, the options are
\* those given, the load is pending.
InitLoading(Options, Loads) ==
    /\ options \in Options
    /\ loading \in Loads
    /\ node = [n \in Ids |-> BSTreeViewNode]
    /\ tree = <<>>
    /\ flat = <<>>
    /\ ordered = <<>>
    /\ indexed = FALSE
    /\ checkedNodes = [defined |-> FALSE, nodes |-> <<>>]
    /\ initialized = FALSE
    /\ events = Constructed.events
    /\ err = "none"
    /\ last = Last("new", <<>>, FALSE, <<>>)

\* After construction with data that loads.
InitWith(Options, Data) == InitLoading(Options, {Pending(d, "none") : d \in Data})

---------------------------------------------------------------------------
(* Selection: the options and data a tree is constructed with, and the
   handlers that read or write state.selected or change what is indexed,
   called once the data is loaded. The check, expand and search handlers
   neither read nor write state.selected; disabling a node only ever calls
   setSelected(false). *)

MaxData == 2

SelectOptions ==
    {[BSTreeViewOptions EXCEPT !.multiSelect = m, !.preventUnselect = p] :
        m \in BOOLEAN, p \in BOOLEAN}

SelectStates == {DataState(s, "false", "null", "false") : s \in {"true", "false"}}

IsLoaded == ~loading.pending

InitSelect == InitWith(SelectOptions, Descriptions(MaxData, SelectStates))

NextSelect ==
    \/ LoadDone
    \/ IsLoaded /\ \E n \in Targets : SelectNode(n)
    \/ IsLoaded /\ \E n \in Targets : UnselectNode(n)
    \/ IsLoaded /\ Cardinality(Live(World)) < MaxTreeNodes
              /\ \E st \in SelectStates, parentNode \in Targets \cup {NullRef} :
                    AddNode(<<st>>, parentNode, FALSE, 0)
    \/ IsLoaded /\ \E n \in Targets : RemoveNode(<<n>>)
    \/ IsLoaded /\ \E n \in Targets, st \in SelectStates : UpdateNode(n, st)

SpecSelect == InitSelect /\ [][NextSelect]_vars

\* The nodes of the tree whose state.selected is true.
SelectedInTree == {n \in Range(TreeNodes(World)) : node[n].state.selected = "true"}

\* The last handler raised the notification e on node n.
Raised(e, n) == Includes(events, <<e, n>>)

\* C2: with multiSelect off, right after selectNode(B) the node B is the
\* only selected node of the tree; a node A selected by an earlier
\* selectNode(A) is no longer selected.
C2_SelectReplaces ==
    (last.op = "selectNode" /\ ~options.multiSelect) => SelectedInTree = {last.nodes[1]}

\* selectNode(B) has unselected a node A that was selected and selected B.
C2_Witness ==
    /\ last.op = "selectNode" /\ ~options.multiSelect
    /\ Raised("nodeSelected", last.nodes[1])
    /\ \E a \in Targets \ {last.nodes[1]} : Raised("nodeUnselected", a)

\* C3: with multiSelect off, every reachable state has at most one selected
\* node in the tree, whatever the data and the nodes added carried.
C3_AtMostOneSelected == ~options.multiSelect => Cardinality(SelectedInTree) <= 1

\* A node whose data said selected was added to a tree of other nodes and
\* is the selected node now.
C3_Witness ==
    /\ ~options.multiSelect /\ last.op = "addNode"
    /\ SelectedInTree = {last.nodes[1]}
    /\ Cardinality(Range(TreeNodes(World))) >= 2

\* C4: with preventUnselect on and A the only selected node,
\* unselectNode(A) leaves A selected.
C4_LastSelectionStays ==
    [][(last'.op = "unselectNode" /\ options.preventUnselect
        /\ Range(getSelected(World)) = {last'.nodes[1]})
       => node'[last'.nodes[1]].state.selected = "true"]_vars

\* unselectNode(A) was called and A, the only selected node, is selected.
C4_Witness ==
    /\ last.op = "unselectNode" /\ options.preventUnselect
    /\ SelectedInTree = {last.nodes[1]}

---------------------------------------------------------------------------
(* Structure: a tree of nodes in their default state, and the handlers that
   change which nodes the tree has. *)

\* The lists of 1..k default state objects (the data of the nodes to add).
DefaultStates(k) == {[i \in 1..n |-> BSTreeViewNodeState] : n \in 1..k}

Init == InitWith({BSTreeViewOptions}, Descriptions(MaxData, {BSTreeViewNodeState}))

Next ==
    \/ LoadDone
    \/ IsLoaded /\ \E sts \in DefaultStates(MaxList), parentNode \in Targets \cup {NullRef},
                    hasIndex \in BOOLEAN :
                    /\ Cardinality(Live(World)) + Len(sts) <= MaxTreeNodes
                    /\ AddNode(sts, parentNode, hasIndex, 0)
    \/ IsLoaded /\ \E ns \in ListsOf(Targets, MaxList) : RemoveNode(ns)
    \/ IsLoaded /\ \E n \in Targets : UpdateNode(n, BSTreeViewNodeState)

Spec == Init /\ [][Next]_vars

\* The keys of the render-ordered index, in its order.
OrderedIds == [i \in 1..Len(ordered) |-> ordered[i][1]]

\* A dot-separated path of non-negative integers.
IsDotPath(id) ==
    LET parts == split(id, ".")
    IN  \A i \in 1..Len(parts) : parts[i] # <<>> /\ \A j \in 1..Len(parts[i]) : IsDigit(parts[i][j])

\* C1: after the initial load and after every addNode, removeNode or
\* updateNode, getNodes() lists every node of the tree exactly once in
\* pre-order, its nodeIds strictly increasing under the component-wise
\* integer comparator, each a dot path of non-negative integers.
C1_IndexIsPreOrder ==
    last.op \in {"load", "addNode", "removeNode", "updateNode"} =>
        /\ OrderedNodes(World) = TreeNodes(World)
        /\ \A i \in 1..(Len(ordered) - 1) : CompareIds(OrderedIds[i], OrderedIds[i + 1]) = -1
        /\ \A i \in 1..Len(ordered) : IsDotPath(OrderedIds[i])

---------------------------------------------------------------------------
(* Hierarchical checking: trees of up to MaxNodes unchecked nodes, and the
   handlers that write state.checked. *)

CheckOptions == {[BSTreeViewOptions EXCEPT !.hierarchicalCheck = TRUE]}

InitCheck == InitWith(CheckOptions, Descriptions(MaxNodes, {BSTreeViewNodeState}))

NextCheck ==
    \/ LoadDone
    \/ IsLoaded /\ \E n \in Targets : CheckNode(n)
    \/ IsLoaded /\ \E n \in Targets : UncheckNode(n)
    \/ IsLoaded /\ \E n \in Targets : ToggleNodeChecked(n)

SpecCheck == InitCheck /\ [][NextCheck]_vars

\* true if all the direct children of a are true, false if all are false,
\* null otherwise.
ChildrenAgree(a) ==
    LET kids == Range(node[a].nodes)
    IN  IF \A c \in kids : node[c].state.checked = "true" THEN "true"
        ELSE IF \A c \in kids : node[c].state.checked = "false" THEN "false"
        ELSE "null"

RECURSIVE Ancestors(_)
\* The ancestors of n, by _parentNode.
Ancestors(n) ==
    IF node[n]._parentNode = NullRef THEN {}
    ELSE {node[n]._parentNode} \cup Ancestors(node[n]._parentNode)

\* C5: with hierarchicalCheck on, after toggleChecked(n) every ancestor of n
\* has checked = true if all its direct children are true, false if all
\* are false, and null otherwise.
C5_AncestorsAggregate ==
    (last.op = "toggleNodeChecked" /\ options.hierarchicalCheck) =>
        \A a \in Ancestors(last.nodes[1]) : node[a].state.checked = ChildrenAgree(a)

\* A parent with three children: toggleChecked of the last unchecked child
\* has made the parent true.
C5_Witness ==
    /\ last.op = "toggleNodeChecked" /\ options.hierarchicalCheck
    /\ \E a \in Ancestors(last.nodes[1]) :
          /\ Len(node[a].nodes) = 3
          /\ node[a].state.checked = "true"
          /\ \A c \in Range(node[a].nodes) : node[c].state.checked = "true"

\* A parent with three checked children: toggleChecked of one child back to
\* unchecked has made the parent null.
C5_WitnessPartial ==
    /\ last.op = "toggleNodeChecked" /\ options.hierarchicalCheck
    /\ \E a \in Ancestors(last.nodes[1]) :
          /\ Len(node[a].nodes) = 3
          /\ node[a].state.checked = "null"
          /\ node[last.nodes[1]].state.checked = "false"

\* C6: with hierarchicalCheck on, after toggleChecked(n) on a node n with
\* descendants, every descendant of n has checked equal to the negation of
\* the value n had before the call.
C6_DescendantsFollow ==
    [][(last'.op = "toggleNodeChecked" /\ options.hierarchicalCheck)
       => \A d \in Descendants(World, last'.nodes[1]) :
             node'[d].state.checked = Not(node[last'.nodes[1]].state.checked)]_vars

---------------------------------------------------------------------------
(* Disabling: every setting of the options that a state mutator reads, a
   tree of up to MaxData nodes with or without the three states set, and
   the handlers that set the states setDisabled clears. *)

DisableOptions ==
    {[BSTreeViewOptions EXCEPT !.multiSelect = m, !.preventUnselect = p,
                               !.hierarchicalCheck = h] :
        m \in BOOLEAN, p \in BOOLEAN, h \in BOOLEAN}

DisableStates == {BSTreeViewNodeState, DataState("true", "true", "true", "false")}

InitDisable == InitWith(DisableOptions, Descriptions(MaxData, DisableStates))

NextDisable ==
    \/ LoadDone
    \/ IsLoaded /\ \E n \in Targets, keepState \in BOOLEAN : DisableNode(n, keepState)
    \/ IsLoaded /\ \E n \in Targets : EnableNode(n)
    \/ IsLoaded /\ \E n \in Targets : ToggleNodeSelected(n)
    \/ IsLoaded /\ \E n \in Targets : ToggleNodeExpanded(n)

SpecDisable == InitDisable /\ [][NextDisable]_vars

\* C7: for every setting of the options, disableNode(n) without keepState
\* on an enabled node that is selected, checked and expanded leaves
\* n.selected, n.checked and n.expanded false and n.disabled true.
C7_DisableClears ==
    [][(/\ last'.op = "disableNode" /\ ~last'.flag
        /\ node[last'.nodes[1]].state.disabled = "false"
        /\ node[last'.nodes[1]].state.selected = "true"
        /\ node[last'.nodes[1]].state.checked = "true"
        /\ node[last'.nodes[1]].state.expanded = "true")
       => /\ node'[last'.nodes[1]].state.selected = "false"
          /\ node'[last'.nodes[1]].state.checked = "false"
          /\ node'[last'.nodes[1]].state.expanded = "false"
          /\ node'[last'.nodes[1]].state.disabled = "true"]_vars

\* C8: disableNode(n) with keepState changes only n.disabled: the other
\* fields of n and every other node are unchanged.
C8_KeepStateFrame ==
    [][(last'.op = "disableNode" /\ last'.flag)
       => /\ node' = [node EXCEPT ![last'.nodes[1]].state.disabled = node'[last'.nodes[1]].state.disabled]
          /\ tree' = tree /\ ordered' = ordered]_vars

\* disableNode(n) with keepState has disabled a node that is still
\* selected, checked and expanded.
C8_Witness ==
    /\ last.op = "disableNode" /\ last.flag
    /\ Raised("nodeDisabled", last.nodes[1])
    /\ node[last.nodes[1]].state.selected = "true"
    /\ node[last.nodes[1]].state.checked = "true"
    /\ node[last.nodes[1]].state.expanded = "true"
    /\ node[last.nodes[1]].state.disabled = "true"

---------------------------------------------------------------------------
(* Search: trees of up to MaxTreeNodes nodes with the texts "P", "C", "Gc"
   by depth, and the search handlers. *)

Patterns == {<<"P">>, <<"C">>, <<"G", "c">>}

InitSearch == InitWith({BSTreeViewOptions}, Descriptions(MaxTreeNodes, {BSTreeViewNodeState}))

NextSearch ==
    \/ LoadDone
    \/ IsLoaded /\ \E pattern \in Patterns, exactMatch \in BOOLEAN :
                      Search(pattern, [BSTreeSearchOptions EXCEPT !.exactMatch = exactMatch])
    \/ IsLoaded /\ ClearSearch

SpecSearch == InitSearch /\ [][NextSearch]_vars

\* The nodes of the tree whose search-result flag is set.
Flagged == {n \in Range(TreeNodes(World)) : node[n]._searchResult = "true"}

\* C9: after search(p1) followed by search(p2), the nodes whose
\* search-result flag is set are exactly the nodes matching p2.
C9_FlagsFollowLastSearch ==
    last.op = "search" =>
        Flagged = Range(SearchResults(World, last.str,
                                      [BSTreeSearchOptions EXCEPT !.exactMatch = last.flag]))

\* C10: after clearSearch(), no node of the tree has its search-result
\* flag set.
C10_ClearSearchClears == last.op = "clearSearch" => Flagged = {}

---------------------------------------------------------------------------
(* Editing: the caller keeps its references to the node objects, so the
   objects keep their identities from one call to the next (no renaming);
   an object nothing refers to any more is reset. The handlers are addNode
   of one or several new nodes at any index, into the root list or under a
   node of the tree, and removeNode of any list of nodes getNodes() lists. *)

\* The largest insert index given to addNode.
MaxIndex == 2

\* The world with the objects nothing refers to reset to a new object.
Kept(w) ==
    [w EXCEPT !.node = [n \in Ids |-> IF n \in Live(w) THEN w.node[n] ELSE BSTreeViewNode]]

\* What the last call was: as Last, with the parent and the index given to
\* addNode and the target children list before the call.
EditCall(op, ns, parentNode, hasIndex, index, before) ==
    [op |-> op, nodes |-> ns, flag |-> hasIndex, str |-> <<>>,
     parent |-> parentNode, index |-> index, before |-> before]

\* The children list addNode inserts into: parentNode.nodes or _tree.
TargetList(w, parentNode) ==
    IF parentNode = NullRef THEN w.tree ELSE w.node[parentNode].nodes

\* addNode(nodes, parentNode, index) of new node objects with default state
AddNodes(k, parentNode, hasIndex, index) ==
    LET ns == FreshIds(Ids \ Live(World), k)
    IN  /\ Len(ns) = k
        /\ Install(Kept(addNode(World, ns, parentNode, hasIndex, index, BSTreeViewMethodOptions)),
                   EditCall("addNode", ns, parentNode, hasIndex, index,
                            TargetList(World, parentNode)),
                   loading)

\* removeNode(nodes)
RemoveNodes(ns) ==
    Install(Kept(removeNode(World, ns)),
            EditCall("removeNode", ns, NullRef, FALSE, 0, <<>>), loading)

InitEdit == InitWith({BSTreeViewOptions}, Descriptions(MaxData, {BSTreeViewNodeState}))

NextEdit ==
    \/ LoadDone
    \/ IsLoaded /\ \E k \in 1..MaxList, parentNode \in Range(TreeNodes(World)) \cup {NullRef},
                    hasIndex \in BOOLEAN, index \in 0..MaxIndex :
                    /\ Cardinality(Live(World)) + k <= MaxTreeNodes
                    /\ hasIndex \/ index = 0
                    /\ AddNodes(k, parentNode, hasIndex, index)
    \/ IsLoaded /\ \E ns \in ListsOf(Targets, MaxList) : RemoveNodes(ns)

SpecEdit == InitEdit /\ [][NextEdit]_vars

\* The position splice(index, 0, ...) inserts at in a list of length len.
InsertAt(index, len) == IF index > len THEN len ELSE index

\* C11: addNode([n], parent, i) immediately followed by removeNode([n])
\* restores the target children list (parent.nodes, or the root list) to
\* its content and order before the addNode.
C11_AddRemoveRoundTrip ==
    [][(/\ last.op = "addNode" /\ Len(last.nodes) = 1
        /\ last'.op = "removeNode" /\ last'.nodes = last.nodes)
       => TargetList([node |-> node', tree |-> tree'], last.parent) = last.before]_vars

\* C13: removeNode([r]) of a root-level node r completes normally and
\* removes r from the root list, and r and its descendants from the index.
C13_RootRemoved ==
    [][(/\ last'.op = "removeNode" /\ Len(last'.nodes) = 1
        /\ Includes(tree, last'.nodes[1]))
       => /\ err' = "none"
          /\ ~Includes(tree', last'.nodes[1])
          /\ \A i \in 1..Len(ordered') :
                ordered'[i][2] \notin Range(Subtree(World, last'.nodes[1]))]_vars

\* The nodes of the list ns of World and their descendants.
Removed(ns) == UNION {Range(Subtree(World, ns[i])) : i \in 1..Len(ns)}

\* C12: removeNode(S) removes exactly the nodes of S and their subtrees:
\* afterwards the tree and the index hold precisely the other nodes, in
\* their original relative order.
C12_RemovesExactly ==
    [][(last'.op = "removeNode" /\ Range(last'.nodes) \subseteq Range(TreeNodes(World)))
       => /\ TreeNodes([node |-> node', tree |-> tree'])
               = SelectSeq(TreeNodes(World), LAMBDA n : n \notin Removed(last'.nodes))
          /\ [i \in 1..Len(ordered') |-> ordered'[i][2]]
               = SelectSeq(TreeNodes(World), LAMBDA n : n \notin Removed(last'.nodes))]_vars

\* C14: addNode([n1..nk], parent, index) puts the k nodes, contiguous and
\* in the order given, into the target children list at position index
\* (at the end if the index is beyond it or not a number); the other
\* children keep their relative order.
C14_InsertsInOrder ==
    last.op = "addNode" =>
        LET at == IF last.flag THEN InsertAt(last.index, Len(last.before))
                  ELSE Len(last.before)
        IN  TargetList(World, last.parent)
              = SubSeq(last.before, 1, at) \o last.nodes
                  \o SubSeq(last.before, at + 1, Len(last.before))

\* Two nodes were inserted in front of the only child of the target, which
\* is now the last of three.
C14_Witness ==
    /\ last.op = "addNode" /\ Len(last.nodes) = 2 /\ last.flag /\ last.index = 0
    /\ Len(last.before) = 1
    /\ TargetList(World, last.parent) = last.nodes \o last.before

---------------------------------------------------------------------------
(* Repeated values: the state methods of a node, called with either value
   (setChecked with null too) on the nodes of a tree that keeps the
   checked-node list and, with hierarchicalCheck, stores null. *)

SameOptions ==
    {[BSTreeViewOptions EXCEPT !.showCheckbox = TRUE, !.highlightChanges = TRUE,
                               !.hierarchicalCheck = TRUE]}

InitSame == InitWith(SameOptions, Descriptions(MaxData, DisableStates))

NextSame ==
    \/ LoadDone
    \/ IsLoaded /\ \E n \in Targets, state \in {"true", "false"} : NodeSetSelected(n, state)
    \/ IsLoaded /\ \E n \in Targets, state \in {"true", "false", "null"} : NodeSetChecked(n, state)
    \/ IsLoaded /\ \E n \in Targets, state \in {"true", "false"} : NodeSetExpanded(n, state)
    \/ IsLoaded /\ \E n \in Targets, state \in {"true", "false"} :
                      NodeSetDisabled(n, state, FALSE)

SpecSame == InitSame /\ [][NextSame]_vars

\* The flag of the state of a node that the method op sets.
FlagOf(op, st) ==
    IF op = "setSelected" THEN st.selected
    ELSE IF op = "setChecked" THEN st.checked
    ELSE IF op = "setExpanded" THEN st.expanded
    ELSE st.disabled

\* C15: setExpanded, setSelected, setChecked or setDisabled called without
\* force with the value the node already has changes no state of any node,
\* leaves the checked-node list unchanged and raises no notification.
C15_SameValueNoChange ==
    [][(/\ last'.op \in {"setSelected", "setChecked", "setExpanded", "setDisabled"}
        /\ FlagOf(last'.op, node[last'.nodes[1]].state) = last'.str[1])
       => /\ node' = node
          /\ checkedNodes' = checkedNodes
          /\ events' = <<>>
          /\ err' = "none"]_vars

\* setDisabled(true) was called on a disabled node that is selected,
\* checked and in the checked-node list: nothing was raised.
C15_Witness ==
    /\ last.op = "setDisabled" /\ last.str = <<"true">> /\ ~last.flag
    /\ events = <<>> /\ err = "none"
    /\ node[last.nodes[1]].state.disabled = "true"
    /\ node[last.nodes[1]].state.selected = "true"
    /\ Includes(checkedNodes.nodes, last.nodes[1])

---------------------------------------------------------------------------
(* Boolean checking: hierarchicalCheck off, data whose checked values are
   true or false, and the handlers that write state.checked. *)

BoolStates == {DataState("false", c, "null", "false") : c \in {"true", "false"}}

InitBool == InitWith({BSTreeViewOptions}, Descriptions(MaxData, BoolStates))

NextBool ==
    \/ LoadDone
    \/ IsLoaded /\ \E n \in Targets : CheckNode(n)
    \/ IsLoaded /\ \E n \in Targets : UncheckNode(n)
    \/ IsLoaded /\ \E n \in Targets : ToggleNodeChecked(n)
    \/ IsLoaded /\ CheckAll
    \/ IsLoaded /\ UncheckAll
    \/ IsLoaded /\ \E n \in Targets, keepState \in BOOLEAN : DisableNode(n, keepState)
    \/ IsLoaded /\ \E n \in Targets, state \in {"true", "false", "null"} : NodeSetChecked(n, state)

SpecBool == InitBool /\ [][NextBool]_vars

\* C17: with hierarchicalCheck off and boolean checked values in the data,
\* the checked value of every node is true or false, never null, after any
\* sequence of checkNode, uncheckNode, toggleNodeChecked, checkAll,
\* uncheckAll, disableNode and setChecked calls (setChecked(null) included).
C17_CheckedIsBoolean ==
    (~options.hierarchicalCheck /\ IsLoaded) =>
        \A n \in Range(TreeNodes(World)) : node[n].state.checked \in {"true", "false"}

\* setChecked(null) was called on a checked node and raised nodeUnchecked.
C17_Witness ==
    /\ ~options.hierarchicalCheck
    /\ last.op = "setChecked" /\ last.str = <<"null">>
    /\ Raised("nodeUnchecked", last.nodes[1])
    /\ node[last.nodes[1]].state.checked = "false"

---------------------------------------------------------------------------
(* Visibility: every auto-expand depth up to MaxLevels, data with or
   without an expanded value, and the expand, collapse, disable and
   structural handlers. *)

\* The largest auto-expand depth (the option levels).
MaxLevels == 2

VisibleOptions == {[BSTreeViewOptions EXCEPT !.levels = l] : l \in 0..MaxLevels}

VisibleStates == {DataState("false", "false", e, "false") : e \in {"null", "true", "false"}}

InitVisible == InitWith(VisibleOptions, Descriptions(MaxData, VisibleStates))

NextVisible ==
    \/ LoadDone
    \/ IsLoaded /\ \E n \in Targets, levels \in {1, BSTreeViewExpandOptions.levels} :
                      ExpandNode(n, levels)
    \/ IsLoaded /\ \E n \in Targets : CollapseNode(n)
    \/ IsLoaded /\ \E n \in Targets : ToggleNodeExpanded(n)
    \/ IsLoaded /\ \E n \in Targets : DisableNode(n, FALSE)
    \/ IsLoaded /\ Cardinality(Live(World)) < MaxTreeNodes
                /\ \E parentNode \in Targets \cup {NullRef} :
                      AddNode(<<BSTreeViewNodeState>>, parentNode, FALSE, 0)
    \/ IsLoaded /\ \E n \in Targets : RemoveNode(<<n>>)

SpecVisible == InitVisible /\ [][NextVisible]_vars

\* C16: in every reachable state, a node of the tree is visible if and only
\* if its level is at most the auto-expand depth or its parent is expanded.
C16_VisibleIff ==
    IsLoaded =>
        \A n \in Range(TreeNodes(World)) :
            Truthy(node[n].state._visible)
              <=> \/ node[n]._level <= options.levels
                  \/ /\ node[n]._parentNode # NullRef
                     /\ node[node[n]._parentNode].state.expanded = "true"

---------------------------------------------------------------------------
(* Enabling a node *)

\* The notifications named e among those the last handler raised.
RaisedOf(evs, e) == SelectSeq(evs, LAMBDA ev : ev[1] = e)

\* C18: enableNode(n) on a disabled node, without the silent option, raises
\* exactly one nodeEnabled notification, for n, and no nodeDisabled
\* notification.
C18_EnableRaisesEnabled ==
    [][(last'.op = "enableNode" /\ node[last'.nodes[1]].state.disabled = "true")
          => /\ RaisedOf(events', "nodeEnabled") = <<<<"nodeEnabled", last'.nodes[1]>>>>
             /\ RaisedOf(events', "nodeDisabled") = <<>>]_vars

---------------------------------------------------------------------------
(* Loading: a tree is constructed with data that loads, with a data string
   that is not valid JSON (JSON.parse throws a SyntaxError), or with an
   ajaxURL whose fetch fails (fetch rejects with a TypeError). *)

LoadErrors == {"SyntaxError", "TypeError"}

LoadStates ==
    {DataState(s, "false", e, "false") : s \in {"true", "false"}, e \in {"null", "true", "false"}}

InitLoad ==
    InitLoading(VisibleOptions,
                {Pending(d, "none") : d \in Descriptions(MaxData, LoadStates)}
                  \cup {Pending(NoData, e) : e \in LoadErrors})

NextLoad ==
    \/ LoadDone
    \/ LoadFailed

SpecLoad == InitLoad /\ [][NextLoad]_vars

\* C19: creating a tree raises the loading notification before any other
\* notification, and the load that follows raises exactly one of
\* initialized and loadingFailed.
C19_LoadingThenOutcome ==
    /\ last.op = "new" => events = <<<<"loading", NullRef>>>>
    /\ last.op = "load" =>
          Len(RaisedOf(events, "initialized")) + Len(RaisedOf(events, "loadingFailed")) = 1

\* C20: when the initial load fails, exactly one loadingFailed notification
\* is raised, no initialized and no rendered notification is, and the tree
\* stays as it was before the load: the root list is empty and the tree is
\* not initialized.
C20_FailedLoad ==
    (last.op = "load" /\ last.flag) =>
        /\ events = <<<<"loadingFailed", NullRef>>>>
        /\ tree = <<>>
        /\ ~initialized
        /\ ~indexed
        /\ Live(World) = {}

C20_Witness ==
    /\ last = Last("load", <<>>, TRUE, <<"SyntaxError">>)
    /\ events = <<<<"loadingFailed", NullRef>>>>
    /\ tree = <<>>
    /\ ~initialized
    /\ err = "SyntaxError"

---------------------------------------------------------------------------
(* The initialized notification *)

\* The places of the notification <<e, n>> among those raised.
PlacesOf(evs, e, n) == {i \in 1..Len(evs) : evs[i] = <<e, n>>}

\* C21: the initialized notification is raised at most once in a run: only
\* by the load, once, after the rendered notification of the first render;
\* addNode, removeNode and updateNode never raise it, and a load that has
\* settled does not run again.
C21_InitializedOnce ==
    [][/\ Len(RaisedOf(events', "initialized")) <= 1
       /\ RaisedOf(events', "initialized") # <<>> =>
              /\ loading.pending
              /\ last'.op = "load"
              /\ \E r \in PlacesOf(events', "rendered", NullRef) :
                     \A i \in PlacesOf(events', "initialized", NullRef) : r < i
       /\ ~loading.pending => ~loading'.pending]_vars

C21_Witness ==
    /\ last.op = "addNode"
    /\ err = "none"
    /\ initialized
    /\ Raised("rendered", NullRef)
    /\ RaisedOf(events, "initialized") = <<>>

---------------------------------------------------------------------------
(* Silent calls: every public method that takes an options object, called
   with silent: true. *)

\* {silent: silent}, as the options of a select, check or disable method
SilentMethodOptions(silent) == [BSTreeViewMethodOptions EXCEPT !.silent = silent]

\* {silent: silent}, as the options of an expand method
SilentExpandOptions(silent) == [BSTreeViewExpandOptions EXCEPT !.silent = silent]

\* {silent: silent}, as the options of search and clearSearch
SilentSearchOptions(silent) == [BSTreeSearchOptions EXCEPT !.silent = silent]

\* The public methods called on one node.
NodeMethods ==
    {"selectNode", "unselectNode", "toggleNodeSelected", "expandNode", "collapseNode",
     "toggleNodeExpanded", "revealNode", "checkNode", "uncheckNode", "toggleNodeChecked",
     "disableNode", "enableNode", "toggleNodeDisabled"}

\* The public methods called on the tree.
TreeMethods ==
    {"expandAll", "collapseAll", "checkAll", "uncheckAll", "disableAll", "enableAll",
     "clearSearch"}

\* The public method op called on the node n, or on the tree, with the
\* option silent.
Method(w, op, n, silent) ==
    CASE op = "selectNode" -> setSelected(w, n, "true", SilentMethodOptions(silent))
      [] op = "unselectNode" -> setSelected(w, n, "false", SilentMethodOptions(silent))
      [] op = "toggleNodeSelected" ->
            setSelected(w, n, Not(w.node[n].state.selected), SilentMethodOptions(silent))
      [] op = "expandNode" -> expandNode(w, <<n>>, SilentExpandOptions(silent))
      [] op = "collapseNode" -> collapseNode(w, <<n>>, SilentExpandOptions(silent))
      [] op = "toggleNodeExpanded" -> toggleExpanded(w, n, SilentMethodOptions(silent))
      [] op = "revealNode" ->
            revealNode(w, <<n>>, ExpandMethodOptions(SilentExpandOptions(silent)))
      [] op = "checkNode" -> setChecked(w, n, "true", SilentMethodOptions(silent))
      [] op = "uncheckNode" -> setChecked(w, n, "false", SilentMethodOptions(silent))
      [] op = "toggleNodeChecked" -> toggleChecked(w, n, SilentMethodOptions(silent))
      [] op = "disableNode" -> setDisabled(w, n, "true", SilentMethodOptions(silent))
      [] op = "enableNode" -> setDisabled(w, n, "false", SilentMethodOptions(silent))
      [] op = "toggleNodeDisabled" ->
            setDisabled(w, n, Not(w.node[n].state.disabled), SilentMethodOptions(silent))
      [] op = "expandAll" -> expandAll(w, SilentExpandOptions(silent))
      [] op = "collapseAll" -> collapseAll(w, SilentExpandOptions(silent))
      [] op = "checkAll" -> checkAll(w, SilentMethodOptions(silent))
      [] op = "uncheckAll" -> uncheckAll(w, SilentMethodOptions(silent))
      [] op = "disableAll" -> disableAll(w, SilentMethodOptions(silent))
      [] op = "enableAll" -> enableAll(w, SilentMethodOptions(silent))
      [] op = "clearSearch" -> clearSearch(w, SilentSearchOptions(silent))

\* A method called on a node with silent: true; last.flag is the option.
SilentNodeCall(op, n) == Commit(Method(World, op, n, TRUE), Last(op, <<n>>, TRUE, <<>>))

\* A method called on the tree with silent: true.
SilentTreeCall(op) == Commit(Method(World, op, NullRef, TRUE), Last(op, <<>>, TRUE, <<>>))

\* search(pattern, {silent: true}): the results are revealed by default.
SilentSearch(pattern) ==
    Commit(search(World, pattern, SilentSearchOptions(TRUE)), Last("search", <<>>, TRUE, pattern))

SilentOptions ==
    {[BSTreeViewOptions EXCEPT !.hierarchicalCheck = h] : h \in BOOLEAN}

InitSilent == InitWith(SilentOptions, Descriptions(MaxData, DisableStates))

NextSilent ==
    \/ LoadDone
    \/ IsLoaded /\ \E op \in NodeMethods, n \in Targets : SilentNodeCall(op, n)
    \/ IsLoaded /\ \E op \in TreeMethods : SilentTreeCall(op)
    \/ IsLoaded /\ \E pattern \in Patterns : SilentSearch(pattern)

SpecSilent == InitSilent /\ [][NextSilent]_vars

\* C22: a public method called with silent: true raises no notification at
\* all, for no node and not for the tree.
C22_SilentRaisesNothing ==
    (last.flag /\ last.op \in NodeMethods \cup TreeMethods \cup {"search"}) => events = <<>>

---------------------------------------------------------------------------
(* Expanding and collapsing: trees of up to MaxTreeNodes nodes whose data
   gives expanded or leaves it out, every auto-expand depth in 1..MaxLevels,
   and the expand and collapse methods with default options. *)

\* The options with an auto-expand depth that shows the roots.
ExpandOptions == {o \in VisibleOptions : o.levels >= 1}

InitExpand == InitWith(ExpandOptions, Descriptions(MaxTreeNodes, VisibleStates))

NextExpand ==
    \/ LoadDone
    \/ IsLoaded /\ ExpandAll
    \/ IsLoaded /\ CollapseAll
    \/ IsLoaded /\ \E n \in Targets, levels \in {1, BSTreeViewExpandOptions.levels} :
                      ExpandNode(n, levels)
    \/ IsLoaded /\ \E n \in Targets : CollapseNode(n)
    \/ IsLoaded /\ \E n \in Targets : ToggleNodeExpanded(n)

SpecExpand == InitExpand /\ [][NextExpand]_vars

\* C23: after expandAll() with default options every node of the tree that
\* has children is expanded and every node of the tree is visible.
C23_ExpandAllExpandsAll ==
    last.op = "expandAll" =>
        \A n \in Range(TreeNodes(World)) :
            /\ hasChildren(World, n) => node[n].state.expanded = "true"
            /\ node[n].state._visible = "true"

\* C24: after collapseAll() every node of the tree is collapsed and every
\* node that is not a root is hidden.
C24_CollapseAllCollapsesAll ==
    last.op = "collapseAll" =>
        \A n \in Range(TreeNodes(World)) :
            /\ node[n].state.expanded = "false"
            /\ ~Includes(tree, n) => node[n].state._visible = "false"

---------------------------------------------------------------------------
(* Disabling every node: data whose nodes have no state object, a state
   object that gives only expanded, or one that gives every flag. *)

\* state: {expanded: true} in the data: Object.assign replaces the state
\* object of the node, the flags not given are undefined.
OnlyExpanded == DataState("undefined", "undefined", "true", "undefined")

PartialStates == {BSTreeViewNodeState, OnlyExpanded, DataState("true", "true", "false", "true")}

InitDisableAll == InitWith({BSTreeViewOptions}, Descriptions(MaxData, PartialStates))

NextDisableAll ==
    \/ LoadDone
    \/ IsLoaded /\ DisableAll
    \/ IsLoaded /\ EnableAll
    \/ IsLoaded /\ \E n \in Targets, keepState \in BOOLEAN : DisableNode(n, keepState)
    \/ IsLoaded /\ \E n \in Targets : EnableNode(n)
    \/ IsLoaded /\ \E n \in Targets : ToggleNodeSelected(n)

SpecDisableAll == InitDisableAll /\ [][NextDisableAll]_vars

\* C25: after disableAll() every node of the tree is disabled, whatever
\* flags the state objects of the data gave.
C25_DisableAllDisablesAll ==
    last.op = "disableAll" =>
        \A n \in Range(TreeNodes(World)) : node[n].state.disabled = "true"

\* disableAll has disabled and collapsed a node without children: of the
\* states of the data only {expanded: true} leaves such a node expanded.
C25_Witness ==
    /\ last.op = "disableAll"
    /\ err = "none"
    /\ \E n \in Range(TreeNodes(World)) :
          /\ ~hasChildren(World, n)
          /\ Raised("nodeCollapsed", n)
          /\ Raised("nodeDisabled", n)
          /\ node[n].state.disabled = "true"

---------------------------------------------------------------------------
(* Queries by the checked flag *)

\* The nodes in render order whose checked flag is v.
CheckedIs(v) == SelectSeq(OrderedNodes(World), LAMBDA n : node[n].state.checked = v)

\* C26: in every state after the load, partially checked nodes included,
\* getChecked() returns normally with exactly the nodes whose checked is
\* true and getUnchecked() with exactly those whose checked is false, both
\* in render order.
C26_CheckedQueries ==
    IsLoaded =>
        /\ ~_findNodesThrows(World, <<"state", "checked">>)
        /\ getChecked(World) = CheckedIs("true")
        /\ getUnchecked(World) = CheckedIs("false")

---------------------------------------------------------------------------
(* What a disabled node refuses *)

\* The node n is disabled and neither selected, checked nor expanded in the
\* state object st.
DisabledAndCleared(st) ==
    /\ st.disabled = "true"
    /\ st.selected = "false"
    /\ st.checked = "false"
    /\ st.expanded = "false"

\* C27: a node that is disabled and neither selected, checked nor expanded
\* (as disableNode without keepState leaves it) stays unselected, unchecked
\* and collapsed under every public method as long as it stays disabled.
C27_DisabledStaysCleared ==
    [][\A n \in Targets :
          (DisabledAndCleared(node[n].state) /\ node'[n].state.disabled = "true")
              => DisabledAndCleared(node'[n].state)]_vars

---------------------------------------------------------------------------
(* Hierarchical toggling *)

\* C28: with hierarchicalCheck enabled, toggleChecked(n) returns normally
\* for every node n of the tree, roots and children of roots included.
C28_ToggleReturns ==
    (options.hierarchicalCheck /\ last.op = "toggleNodeChecked") => err = "none"

---------------------------------------------------------------------------
(* Collapsing a subtree: trees of up to MaxNodes nodes in their default
   state, and the expand and collapse methods of one node. *)

InitCollapse == InitWith({BSTreeViewOptions}, Descriptions(MaxNodes, {BSTreeViewNodeState}))

NextCollapse ==
    \/ LoadDone
    \/ IsLoaded /\ \E n \in Targets, levels \in {1, BSTreeViewExpandOptions.levels} :
                      ExpandNode(n, levels)
    \/ IsLoaded /\ \E n \in Targets : CollapseNode(n)
    \/ IsLoaded /\ \E n \in Targets : ToggleNodeExpanded(n)

SpecCollapse == InitCollapse /\ [][NextCollapse]_vars

\* C29: after collapseNode(n), or toggleNodeExpanded(n), on an expanded
\* node n every descendant of n, at every depth, is hidden and collapsed.
C29_CollapseHidesSubtree ==
    [][(/\ last'.op \in {"collapseNode", "toggleNodeExpanded"}
        /\ node[last'.nodes[1]].state.expanded = "true")
          => \A d \in Descendants([node |-> node'], last'.nodes[1]) :
                 /\ node'[d].state._visible = "false"
                 /\ node'[d].state.expanded = "false"]_vars

---------------------------------------------------------------------------
(* The initial indexing pass: the then callback of _init in two steps, the
   indexing pass (_updateFlatTreeMaps on the nodes created from the data)
   and the rest (_render and the notification). Node i of the data becomes
   the node object i. *)

\* state: {selected: true} in the data: the flags not given are undefined.
OnlySelected == DataState("true", "undefined", "undefined", "undefined")

IndexStates ==
    {BSTreeViewNodeState, OnlySelected, DataState("false", "false", "true", "false"),
     DataState("false", "false", "null", "true")}

\* _init: this._tree = data.map(...); this._updateFlatTreeMaps()
IndexDone ==
    /\ loading.pending
    /\ loading.error = "none"
    /\ ~indexed
    /\ Install(_updateFlatTreeMaps(Loaded(World, loading.data)),
               Last("index", <<>>, FALSE, <<>>), loading)

\* _init: this._render() and the initialized notification, or the catch
\* callback if the then callback has thrown.
RenderDone ==
    /\ loading.pending
    /\ indexed
    /\ Install(LoadOutcome(_render(IF err = "none" THEN World ELSE Throw(World, err))),
               Last("load", <<>>, FALSE, <<>>), Settled)

InitIndex == InitWith(VisibleOptions, Descriptions(MaxTreeNodes, IndexStates))

NextIndex ==
    \/ IndexDone
    \/ RenderDone

SpecIndex == InitIndex /\ [][NextIndex]_vars

\* The indexing pass has run and the first render has not.
IsIndexed == loading.pending /\ indexed

\* The data gave the node no value for expanded: no state object (the
\* default state has expanded = null), or a state object without it.
NoExpandedGiven(i) == loading.data.state[i].expanded \notin {"true", "false"}

\* C30: after the initial indexing pass every node whose data gave no
\* expanded value is expanded exactly if (not disabled) and (level <
\* auto-expand depth) and (has children); every node has visible = (its parent is
\* expanded) or (level <= depth); and the data [{P, nodes: [C1, C2]}] with
\* depth 1 gives P nodeId "0.0", level 1, expanded false and C1, C2 nodeIds
\* "0.0.0", "0.0.1", level 2, visible false.
C30_InitialIndexing ==
    IsIndexed =>
        /\ \A n \in Range(TreeNodes(World)) :
              /\ NoExpandedGiven(n) =>
                    (node[n].state.expanded = "true"
                       <=> /\ ~Truthy(node[n].state.disabled)
                           /\ node[n]._level < options.levels
                           /\ hasChildren(World, n))
              /\ node[n].state._visible
                    = JSBool(\/ /\ node[n]._parentNode # NullRef
                                /\ node[node[n]._parentNode].state.expanded = "true"
                             \/ node[n]._level <= options.levels)
        /\ (/\ options.levels = 1
            /\ tree = <<1>>
            /\ node[1].nodes = <<2, 3>>
            /\ \A i \in 1..3 : loading.data.state[i] = BSTreeViewNodeState)
              => /\ node[1]._nodeId = <<"0", ".", "0">>
                 /\ node[1]._level = 1
                 /\ node[1].state.expanded = "false"
                 /\ node[2]._nodeId = <<"0", ".", "0", ".", "0">>
                 /\ node[3]._nodeId = <<"0", ".", "0", ".", "1">>
                 /\ \A c \in {2, 3} : node[c]._level = 2 /\ node[c].state._visible = "false"

---------------------------------------------------------------------------
(* Re-indexing and the expanded flag: a tree whose data gives expanded
   values or leaves them to the auto-expand depth, nodes expanded and
   collapsed by hand, and the three structural handlers. Objects keep their
   identities, so a node is the same before and after a call. *)

\* expandNode, collapseNode or toggleNodeExpanded of the node n
ExpandCall(op, n) ==
    Install(Kept(Method(World, op, n, FALSE)),
            EditCall(op, <<n>>, NullRef, FALSE, 0, <<>>), loading)

\* updateNode(n, newNode) with a new node object of default state
UpdateNodes(n) ==
    LET ns == FreshIds(Ids \ Live(World), 1)
    IN  /\ Len(ns) = 1
        /\ Install(Kept(updateNode(World, n, ns[1])),
                   EditCall("updateNode", <<n, ns[1]>>, NullRef, FALSE, 0, <<>>), loading)

InitReindex == InitWith(ExpandOptions, Descriptions(MaxData, VisibleStates))

NextReindex ==
    \/ LoadDone
    \/ IsLoaded /\ \E op \in {"expandNode", "collapseNode", "toggleNodeExpanded"},
                      n \in Targets : ExpandCall(op, n)
    \/ IsLoaded /\ \E parentNode \in Range(TreeNodes(World)) \cup {NullRef} :
                    /\ Cardinality(Live(World)) < MaxTreeNodes
                    /\ AddNodes(1, parentNode, FALSE, 0)
    \/ IsLoaded /\ \E n \in Targets : RemoveNodes(<<n>>)
    \/ IsLoaded /\ \E n \in Targets : UpdateNodes(n)

SpecReindex == InitReindex /\ [][NextReindex]_vars

\* C31: addNode, removeNode and updateNode leave the expanded value of
\* every node that is in the tree before and after the call as it was,
\* except for the parent addNode inserts into.
C31_ReindexKeepsExpanded ==
    [][last'.op \in {"addNode", "removeNode", "updateNode"}
       => \A n \in Range(TreeNodes(World)) \cap Range(TreeNodes([node |-> node', tree |-> tree'])) :
             \/ last'.op = "addNode" /\ n = last'.parent
             \/ node'[n].state.expanded = node[n].state.expanded]_vars

\* C32: after addNode(nodes, parent) under a node of the tree the parent
\* is expanded and every inserted node is visible, whether or not the
\* parent was expanded before.
C32_AddNodeExpandsParent ==
    (last.op = "addNode" /\ last.parent # NullRef)
        => /\ node[last.parent].state.expanded = "true"
           /\ \A i \in 1..Len(last.nodes) : node[last.nodes[i]].state._visible = "true"

---------------------------------------------------------------------------
(* Lazy loading: a tree constructed with a lazyLoad hook and data whose
   nodes may be flagged lazyLoad: true; the nodes are expanded, collapsed,
   toggled and clicked, and the hook, once called for a node, may hand its
   renderer a child for it. Objects keep their identities; last.calls
   counts, per node, the calls of the hook since construction. *)

\* The targets of a click on the element of a node.
ClickTargets == {"expand-icon", "check-icon", "text"}

\* The calls of the hook counted so far, per node.
CallsOf(l) == IF "calls" \in DOMAIN l THEN l.calls ELSE [n \in Ids |-> 0]

\* The handler has left the world w: the calls of the hook it made are
\* added to those counted before.
LazyInstall(w, op, ns, str) ==
    Install(Kept(w),
            [op |-> op, nodes |-> ns, flag |-> FALSE, str |-> str,
             calls |-> [n \in Ids |->
                          CallsOf(last)[n] + Len(SelectSeq(w.lazyLoaded, LAMBDA m : m = n))]],
            loading)

\* expandNode, collapseNode or toggleNodeExpanded of the node n
LazyCall(op, n) == LazyInstall(Method(World, op, n, FALSE), op, <<n>>, <<>>)

\* A click on the target of the element of the node n.
Click(n, target) == LazyInstall(_clickHandler(World, n, target), "click", <<n>>, <<target>>)

\* The hook, called for the node n before, calls its renderer with one new
\* node: this._treeView.addNode(nodes, this).
HookRenders(n) ==
    LET ns == FreshIds(Ids \ Live(World), 1)
    IN  /\ Len(ns) = 1
        /\ CallsOf(last)[n] > 0
        /\ LazyInstall(addNode(World, ns, n, FALSE, 0, BSTreeViewMethodOptions),
                       "addNode", ns, <<>>)

LazyOptions == {[BSTreeViewOptions EXCEPT !.lazyLoad = "function"]}

\* Data of default state whose nodes are flagged lazyLoad: true or not.
LazyDescriptions ==
    UNION {{[d EXCEPT !.lazyLoad = f] : f \in [1..d.n -> {"true", "false"}]} :
             d \in Descriptions(MaxData, {BSTreeViewNodeState})}

InitLazy == InitWith(LazyOptions, LazyDescriptions)

NextLazy ==
    \/ LoadDone
    \/ IsLoaded /\ \E op \in {"expandNode", "collapseNode", "toggleNodeExpanded"},
                      n \in Targets : LazyCall(op, n)
    \/ IsLoaded /\ \E n \in Targets, target \in ClickTargets : Click(n, target)
    \/ IsLoaded /\ \E n \in Targets :
                      Cardinality(Live(World)) < MaxTreeNodes /\ HookRenders(n)

SpecLazy == InitLazy /\ [][NextLazy]_vars

\* The call is an expansion of the node n through one of the entry points:
\* expandNode, toggleNodeExpanded or a click on the expand icon.
ExpansionOf(l, n) ==
    /\ l.nodes = <<n>>
    /\ \/ l.op \in {"expandNode", "toggleNodeExpanded"}
       \/ l.op = "click" /\ l.str = <<"expand-icon">>

\* C33: in a tree with a lazyLoad hook the hook is called at most once for
\* a node, and it is called by the first expansion of a node flagged
\* lazyLoad, whether through expandNode, toggleNodeExpanded or a click on
\* the expand icon.
C33_LazyLoadedOnce ==
    [][\A n \in Ids :
          /\ CallsOf(last')[n] <= 1
          /\ (/\ IsLoaded
              /\ Truthy(node[n].lazyLoad) /\ ~Truthy(node[n].state.expanded)
              /\ ExpansionOf(last', n))
                => CallsOf(last')[n] = 1]_vars

---------------------------------------------------------------------------
(* Revealing search results: trees of up to MaxTreeNodes nodes whose data
   gives expanded values or leaves them to the auto-expand depth, expanded
   and collapsed by hand, and searched. *)

InitReveal == InitWith(ExpandOptions, Descriptions(MaxTreeNodes, VisibleStates))

NextReveal ==
    \/ LoadDone
    \/ IsLoaded /\ \E pattern \in Patterns, exactMatch \in BOOLEAN :
                      Search(pattern, [BSTreeSearchOptions EXCEPT !.exactMatch = exactMatch])
    \/ IsLoaded /\ \E n \in Targets : ExpandNode(n, 1)
    \/ IsLoaded /\ \E n \in Targets : CollapseNode(n)
    \/ IsLoaded /\ \E n \in Targets : ToggleNodeExpanded(n)

SpecReveal == InitReveal /\ [][NextReveal]_vars

\* The nodes the last search matched.
Matched ==
    Range(SearchResults(World, last.str, [BSTreeSearchOptions EXCEPT !.exactMatch = last.flag]))

---------------------------------------------------------------------------
(* Expanded parents and visible children *)

\* C37: in every reachable state each direct child of a node whose
\* expanded is true is visible.
C37_ExpandedShowsChildren ==
    IsLoaded =>
        \A n \in Range(TreeNodes(World)) :
            node[n].state.expanded = "true"
                => \A i \in 1..Len(node[n].nodes) :
                       node[node[n].nodes[i]].state._visible = "true"

\* A node was added under an expanded node that had a child already: both
\* children are visible.
C37_Witness ==
    /\ last.op = "addNode" /\ err = "none"
    /\ \E n \in Range(TreeNodes(World)) :
          /\ node[n].state.expanded = "true"
          /\ Len(node[n].nodes) = 2
          /\ Includes(node[n].nodes, last.nodes[1])
          /\ \A i \in 1..2 : node[node[n].nodes[i]].state._visible = "true"

\* C38: in every reachable state a visible node that is not a root has a
\* visible parent.
C38_VisibleUnderVisible ==
    IsLoaded =>
        \A n \in Range(TreeNodes(World)) :
            (node[n]._parentNode # NullRef /\ node[n].state._visible = "true")
                => node[node[n]._parentNode].state._visible = "true"

---------------------------------------------------------------------------
(* The flat map and the hierarchy fields *)

\* The node c, at the zero-based position index of the children of parent
\* (NullRef: of the root list), has the hierarchy fields of that place.
PlacedAt(c, parent, index) ==
    /\ node[c]._index = index
    /\ node[c]._parentNode = parent
    /\ node[c]._level = IF parent = NullRef THEN 1 ELSE node[parent]._level + 1
    /\ node[c]._nodeId = (IF parent = NullRef THEN <<"0">> ELSE node[parent]._nodeId)
                            \o <<".">> \o NumToStr(index)

\* C35: after the initial load and after every addNode, removeNode and
\* updateNode the flat map holds exactly the nodes reachable from the root
\* list, each under its own nodeId, no two nodes share a nodeId, and every
\* node has the level, index, parent and nodeId of its place in the tree.
C35_FlatMapAndHierarchy ==
    last.op \in {"load", "addNode", "removeNode", "updateNode"} =>
        /\ {flat[i][2] : i \in 1..Len(flat)} = Range(TreeNodes(World))
        /\ \A i \in 1..Len(flat) : flat[i][1] = node[flat[i][2]]._nodeId
        /\ \A n, m \in Range(TreeNodes(World)) : n # m => node[n]._nodeId # node[m]._nodeId
        /\ \A k \in 1..Len(tree) : PlacedAt(tree[k], NullRef, k - 1)
        /\ \A p \in Range(TreeNodes(World)) :
              \A k \in 1..Len(node[p].nodes) : PlacedAt(node[p].nodes[k], p, k - 1)

---------------------------------------------------------------------------
(* The aggregate of the children: hierarchicalCheck, trees of up to
   MaxNodes nodes that load unchecked (every parent false like its
   children), and all five check handlers. *)

NextAggregate ==
    \/ LoadDone
    \/ IsLoaded /\ \E n \in Targets : CheckNode(n)
    \/ IsLoaded /\ \E n \in Targets : UncheckNode(n)
    \/ IsLoaded /\ \E n \in Targets : ToggleNodeChecked(n)
    \/ IsLoaded /\ CheckAll
    \/ IsLoaded /\ UncheckAll

SpecAggregate == InitCheck /\ [][NextAggregate]_vars

\* C36: with hierarchicalCheck on, after every checkNode, uncheckNode,
\* toggleNodeChecked, checkAll and uncheckAll the checked value of every
\* node with children is the aggregate of its direct children: true if all
\* are true, false if all are false, null otherwise.
C36_ParentsAggregate ==
    IsLoaded =>
        \A a \in Range(TreeNodes(World)) :
            Len(node[a].nodes) > 0 => node[a].state.checked = ChildrenAgree(a)

---------------------------------------------------------------------------
(* preventUnselect: single- and multi-select trees constructed with
   preventUnselect, data whose nodes are selected or not, and the handlers
   that select, unselect and disable a node. *)

PreventOptions ==
    {[BSTreeViewOptions EXCEPT !.preventUnselect = TRUE, !.multiSelect = m] : m \in BOOLEAN}

InitPrevent == InitWith(PreventOptions, Descriptions(MaxTreeNodes, SelectStates))

NextPrevent ==
    \/ LoadDone
    \/ IsLoaded /\ \E n \in Targets : SelectNode(n)
    \/ IsLoaded /\ \E n \in Targets : UnselectNode(n)
    \/ IsLoaded /\ \E n \in Targets : ToggleNodeSelected(n)
    \/ IsLoaded /\ \E n \in Targets, keepState \in BOOLEAN : DisableNode(n, keepState)
    \/ IsLoaded /\ \E n \in Targets : EnableNode(n)

SpecPrevent == InitPrevent /\ [][NextPrevent]_vars

\* C39: with preventUnselect on, if some node is selected then at least
\* one node is selected after a selectNode, unselectNode,
\* toggleNodeSelected or disableNode.
C39_OneStaysSelected ==
    [][(/\ options.preventUnselect
        /\ SelectedInTree # {}
        /\ last'.op \in {"selectNode", "unselectNode", "toggleNodeSelected", "disableNode"})
          => \E n \in Range(TreeNodes([node |-> node', tree |-> tree'])) :
                 node'[n].state.selected = "true"]_vars

\* The only selected node was disabled without keepState and, the unselect
\* being refused, is still selected.
C39_Witness ==
    /\ options.preventUnselect
    /\ last.op = "disableNode" /\ ~last.flag /\ err = "none"
    /\ Raised("nodeDisabled", last.nodes[1])
    /\ SelectedInTree = {last.nodes[1]}
    /\ Cardinality(Range(TreeNodes(World))) > 1

---------------------------------------------------------------------------
(* Calls before the load has finished: the public queries, search and
   clearSearch, called at any time from the construction on. A query
   changes nothing; last records what it returned: last.nodes the nodes,
   last.flag whether it returned a collection at all, err the error it
   threw. *)

\* The public queries.
Queries == {"getNodes", "findNodes", "getSelected", "getSearchResults"}

\* What a query returns: getNodes returns _orderedNodes itself, undefined
\* before the first indexing pass; the others scan it with _findNodes,
\* findNodes the text with the pattern given.
QueryResult(w, q, pattern) ==
    IF q = "getNodes"
    THEN [err |-> "none", defined |-> w.indexed,
          nodes |-> IF w.indexed THEN OrderedNodes(w) ELSE <<>>]
    ELSE LET attribute == IF q = "findNodes" THEN <<"text">>
                          ELSE IF q = "getSelected" THEN <<"state", "selected">>
                          ELSE <<"searchResult">>
         IN  IF _findNodesThrows(w, attribute)
             THEN [err |-> "TypeError", defined |-> FALSE, nodes |-> <<>>]
             ELSE [err |-> "none", defined |-> TRUE,
                   nodes |-> _findNodes(w, IF q = "findNodes" THEN pattern ELSE TrueChars,
                                        attribute, FALSE)]

\* The query q is called, findNodes with the pattern.
Query(q, pattern) ==
    Install([World EXCEPT !.err = QueryResult(World, q, pattern).err],
            Last(q, QueryResult(World, q, pattern).nodes,
                 QueryResult(World, q, pattern).defined, pattern),
            loading)

InitPreload == InitWith({BSTreeViewOptions}, Descriptions(MaxTreeNodes, SelectStates))

NextPreload ==
    \/ LoadDone
    \/ \E q \in Queries, pattern \in Patterns :
          (q = "findNodes" \/ pattern = <<"P">>) /\ Query(q, pattern)
    \/ \E pattern \in Patterns : Search(pattern, BSTreeSearchOptions)
    \/ ClearSearch

SpecPreload == InitPreload /\ [][NextPreload]_vars

\* C40: a query, a search or a clearSearch called while the initial load
\* is pending raises no error, and a query returns an empty collection.
C40_PreloadCallsAreEmpty ==
    (loading.pending /\ last.op \in Queries \cup {"search", "clearSearch"})
        => /\ err = "none"
           /\ last.op \in Queries => (last.flag /\ last.nodes = <<>>)

====
